---- MODULE Spec2Model ----
(***************************************************************************)
(* TextFileEditorModelManager: the registry of text file models, its       *)
(* pending-load bookkeeping and its reaction to file, editor and           *)
(* configuration events, as a state machine.                               *)
(*                                                                         *)
(* A model instance is a position in the sequence `models`.  A listener    *)
(* handle kept in one of the manager's listener maps is the number of the  *)
(* model it listens to; the model's side of the subscription is kept in    *)
(* the model record (onDispose, onDidStateChange, onDidContentChange), so  *)
(* that "the handle is held" and "the listener is still subscribed" are    *)
(* two facts.  A promise is identified by the model whose load() made it   *)
(* and by whether it is the load promise itself or the promise that        *)
(* loadOrCreate chains onto it with then().                                *)
(*                                                                         *)
(* TPromise continuations run synchronously when the promise settles, so   *)
(* a load settling and the continuation of loadOrCreate are one step.      *)
(***************************************************************************)
EXTENDS Integers, Sequences, FiniteSets, TLC

\* ---------------------------------------------------------------- bounds
MaxModels == 2
\* the change events the batched streams hold at a time
MaxBatch == 3

Resources == {"r1", "r2"}
Encodings == {"utf8"}
Errors == {"e1", "e2"}
\* the resources for which the callers of the manager ask for models
Files == {"r1"}
\* the lists of distinct resources a file change event can carry
ResourceLists(RS) == {<<>>} \cup {<<r>> : r \in RS}
                     \cup {l \in {<<r, q>> : r \in RS, q \in RS} : l[1] # l[2]}

\* ------------------------------------------------------------ vocabulary
NoModel == 0
NoResource == "none"
NoEncoding == "undefined"
ModelStates == {"SAVED", "DIRTY", "SAVE_ERROR"}
StateChanges == {"DIRTY", "SAVE_ERROR", "SAVED", "REVERTED", "ENCODING"}
FileOperations == {"CREATE", "DELETE", "MOVE", "COPY"}
NoUndo == [model |-> NoModel, state |-> "none"]
NoPromise == [load |-> NoModel, then |-> FALSE]
Unsettled == [status |-> "pending", model |-> NoModel, error |-> "none"]
Resolved(m) == [status |-> "resolved", model |-> m, error |-> "none"]
Rejected(e) == [status |-> "rejected", model |-> NoModel, error |-> e]
NoOutcome == [resource |-> NoResource, model |-> NoModel, to |-> {},
              raw |-> Unsettled, then |-> Unsettled]
NoStream == 0
\* the events that have a batched form
BatchedKinds == {"onModelDirty", "onModelSaveError", "onModelSaved", "onModelReverted"}

\* The values of workbench.editor.closeOnExternalFileDelete a configuration
\* snapshot can carry, and the snapshots that lack an enclosing section.
Configurations == {"noWorkbench", "noEditor", "absent", "notBoolean", "true", "false"}

VARIABLES
    disposeOnExternalFileDelete,
    toUnbind,
    mapResourceToModel,
    mapResourceToDisposeListener,
    mapResourceToStateChangeListener,
    mapResourceToModelContentChangeListener,
    mapResourceToPendingModelLoaders,
    mapResourceToUndoDirtyFromExternalDelete,
    models,
    editors,
    returned,
    outcome,
    fired,
    calls,
    onModelsEvents,
    streams,
    emitted,
    got,
    lastOp

\* remoteLanguagePacks: the product, the module's cache, the promises that
\* resolveNLSConfiguration made and the calls of getNLSConfiguration
VARIABLES
    product,
    nlsConfigurationCache,
    nlsPromises,
    nlsCalls

\* DiffEditorInput: its cached model, the diff models created, the calls of
\* resolve() and whether the input is disposed
VARIABLES
    cachedModel,
    diffModels,
    resolveCalls,
    inputDisposed

nlsVars == <<product, nlsConfigurationCache, nlsPromises, nlsCalls>>
diffVars == <<cachedModel, diffModels, resolveCalls, inputDisposed>>

managerVars == <<disposeOnExternalFileDelete, toUnbind, mapResourceToModel,
          mapResourceToDisposeListener, mapResourceToStateChangeListener,
          mapResourceToModelContentChangeListener,
          mapResourceToPendingModelLoaders,
          mapResourceToUndoDirtyFromExternalDelete, models, editors,
          returned, outcome, fired, calls, onModelsEvents, streams, emitted,
          got, lastOp>>

vars == <<managerVars, nlsVars, diffVars>>

\* ------------------------------------------------------- state as a value
\* The handlers are sequences of updates; each is written as a function on
\* the record St of the manager's fields and the models.
St ==
    [flag |-> disposeOnExternalFileDelete,
     bound |-> toUnbind,
     map |-> mapResourceToModel,
     dl |-> mapResourceToDisposeListener,
     sl |-> mapResourceToStateChangeListener,
     cl |-> mapResourceToModelContentChangeListener,
     pend |-> mapResourceToPendingModelLoaders,
     undo |-> mapResourceToUndoDirtyFromExternalDelete,
     models |-> models,
     editors |-> editors,
     ret |-> returned,
     out |-> NoOutcome,
     fired |-> <<>>,
     calls |-> <<>>,
     batched |-> onModelsEvents,
     streams |-> streams,
     emitted |-> <<>>,
     got |-> NoStream]

\* A disposed model with no load in flight that is not registered is never
\* read again: its remaining fields are cleared.
Forgotten(S, m) ==
    /\ S.models[m].disposed
    /\ S.models[m].loading = 0
    /\ \A i \in DOMAIN S.map : S.map[i].value # m

forget(S) ==
    [m \in DOMAIN S.models |->
        IF Forgotten(S, m)
        THEN [S.models[m] EXCEPT !.state = "SAVED", !.loaded = FALSE]
        ELSE S.models[m]]

\* A handler that changed nothing, fired nothing and called nothing leaves
\* no trace: lastOp, fired, calls and outcome describe the last step that did.
Commit(S, op) ==
    IF [S EXCEPT !.models = forget(S)] = St
    THEN UNCHANGED vars
    ELSE /\ disposeOnExternalFileDelete' = S.flag
         /\ toUnbind' = S.bound
         /\ mapResourceToModel' = S.map
         /\ mapResourceToDisposeListener' = S.dl
         /\ mapResourceToStateChangeListener' = S.sl
         /\ mapResourceToModelContentChangeListener' = S.cl
         /\ mapResourceToPendingModelLoaders' = S.pend
         /\ mapResourceToUndoDirtyFromExternalDelete' = S.undo
         /\ models' = forget(S)
         /\ editors' = S.editors
         /\ returned' = S.ret
         /\ outcome' = S.out
         /\ fired' = S.fired
         /\ calls' = S.calls
         /\ onModelsEvents' = S.batched
         /\ streams' = S.streams
         /\ emitted' = S.emitted
         /\ got' = S.got
         /\ lastOp' = op
         /\ UNCHANGED <<nlsVars, diffVars>>

\* ------------------------------------------- a JS object used as a map
\* mapResourceToModel keeps its keys in insertion order (getAll walks
\* Object.keys): a sequence of key/value entries.
mapHas(map, r) == \E i \in DOMAIN map : map[i].key = r

mapGet(map, r) ==
    IF mapHas(map, r)
    THEN map[CHOOSE i \in DOMAIN map : map[i].key = r].value
    ELSE NoModel

mapSet(map, r, m) ==
    IF mapHas(map, r)
    THEN [i \in DOMAIN map |->
            IF map[i].key = r THEN [key |-> r, value |-> m] ELSE map[i]]
    ELSE Append(map, [key |-> r, value |-> m])

mapDelete(map, r) == SelectSeq(map, LAMBDA e : e.key # r)

mapKeys(map) == {map[i].key : i \in DOMAIN map}

\* ------------------------------------------------------------ recording
get(S, r) == mapGet(S.map, r)

\* the merger of debounce that forgets the events it has collected
mergerKeepsLast(prev, cur) == <<cur>>

\* the merger debounce hands to debounceEvent: the list of the events so far
merger(prev, cur) ==
    IF prev = <<>> THEN <<cur>> ELSE Append(prev, cur)

\* the listener of a debounced stream: merge the event, restart the timer
debounced(stream, cur) ==
    [stream EXCEPT !.output = merger(@, cur), !.handle = TRUE]

\* emitter.fire(event): the step has fired it, and the batched streams of
\* the event have it in their listener
fire(S, ev, r, m) ==
    LET cur == [event |-> ev, resource |-> r, model |-> m,
                registered |-> get(S, r), pending |-> S.pend[r]]
    IN  [S EXCEPT !.fired = Append(@, cur),
                  !.streams = [i \in DOMAIN @ |->
                                  IF @[i].event = ev THEN debounced(@[i], cur)
                                  ELSE @[i]]]

call(S, c, m) ==
    [S EXCEPT !.calls = Append(@, [call |-> c, model |-> m, with |-> "none"])]

callWith(S, c, m, arg) ==
    [S EXCEPT !.calls = Append(@, [call |-> c, model |-> m, with |-> arg])]

\* --------------------------------------------------- the model instance
NewModel(r) ==
    [resource |-> r, state |-> "SAVED", disposed |-> FALSE,
     loaded |-> FALSE, loading |-> 0, onDispose |-> {},
     onDidStateChange |-> FALSE, onDidContentChange |-> FALSE]

isDirty(S, m) == S.models[m].state # "SAVED"

\* the switch of the state change listener with two of its cases exchanged
StateChangeEventSwapped(change) ==
    CASE change = "DIRTY" -> "onModelDirty"
      [] change = "SAVE_ERROR" -> "onModelSaveError"
      [] change = "SAVED" -> "onModelReverted"
      [] change = "REVERTED" -> "onModelSaved"
      [] change = "ENCODING" -> "onModelEncodingChanged"

StateChangeEvent(change) ==
    CASE change = "DIRTY" -> "onModelDirty"
      [] change = "SAVE_ERROR" -> "onModelSaveError"
      [] change = "SAVED" -> "onModelSaved"
      [] change = "REVERTED" -> "onModelReverted"
      [] change = "ENCODING" -> "onModelEncodingChanged"

\* the listener loadOrCreate installs on model.onDidStateChange
stateChangeListener(S, m, change) ==
    fire(S, StateChangeEvent(change), S.models[m].resource, m)

\* the listener loadOrCreate installs on model.onDidContentChange
contentChangeListener(S, m) ==
    fire(S, "onModelContentChanged", S.models[m].resource, m)

emitStateChange(S, m, change) ==
    IF S.models[m].onDidStateChange THEN stateChangeListener(S, m, change) ELSE S

StateAfter(state, change) ==
    CASE change = "DIRTY" -> "DIRTY"
      [] change = "SAVE_ERROR" -> "SAVE_ERROR"
      [] change \in {"SAVED", "REVERTED"} -> "SAVED"
      [] OTHER -> state

\* model.setDirty(true): the model turns dirty and tells its listeners
setDirty(S, m) ==
    emitStateChange([call(S, "setDirty", m) EXCEPT !.models[m].state = "DIRTY"],
                    m, "DIRTY")

\* ------------------------------------------------------- remove and add
unsubscribeDispose(S, r, m) ==
    [S EXCEPT !.models[m].onDispose = @ \ {[kind |-> "remove", resource |-> r]}]

\* remove() that deletes the entry and keeps the three listeners
removeKeepsListeners(S, r) == [S EXCEPT !.map = mapDelete(@, r)]

\* remove() that leaves the dispose listener held and subscribed
removeKeepsDisposeListener(S, r) ==
    LET S1 == [S EXCEPT !.map = mapDelete(@, r)]
        S3 == IF S1.sl[r] # NoModel
              THEN [S1 EXCEPT !.models[S1.sl[r]].onDidStateChange = FALSE,
                              !.sl[r] = NoModel]
              ELSE S1
        S4 == IF S3.cl[r] # NoModel
              THEN [S3 EXCEPT !.models[S3.cl[r]].onDidContentChange = FALSE,
                              !.cl[r] = NoModel]
              ELSE S3
    IN  S4

remove(S, r) ==
    LET S1 == [S EXCEPT !.map = mapDelete(@, r)]
        S2 == IF S1.dl[r] # NoModel
              THEN [unsubscribeDispose(S1, r, S1.dl[r]) EXCEPT !.dl[r] = NoModel]
              ELSE S1
        S3 == IF S2.sl[r] # NoModel
              THEN [S2 EXCEPT !.models[S2.sl[r]].onDidStateChange = FALSE,
                              !.sl[r] = NoModel]
              ELSE S2
        S4 == IF S3.cl[r] # NoModel
              THEN [S3 EXCEPT !.models[S3.cl[r]].onDidContentChange = FALSE,
                              !.cl[r] = NoModel]
              ELSE S3
    IN  S4

\* add() that stores the model and installs no dispose listener
addUnlistened(S, r, m) ==
    IF get(S, r) = m THEN S
    ELSE [S EXCEPT !.map = mapSet(@, r, m), !.dl[r] = m]

\* add() that disposes the previous dispose listener before it looks
\* whether the model is the known one
addDropsListener(S, r, m) ==
    LET S1 == IF S.dl[r] # NoModel
              THEN unsubscribeDispose(S, r, S.dl[r])
              ELSE S
    IN  IF get(S, r) = m THEN S1
        ELSE LET S2 == [S1 EXCEPT !.map = mapSet(@, r, m), !.dl[r] = m]
             IN  IF S2.models[m].disposed THEN S2
                 ELSE [S2 EXCEPT !.models[m].onDispose =
                                     @ \cup {[kind |-> "remove", resource |-> r]}]

\* add() that leaves the dispose listener of the model it replaces
addKeepsOldListener(S, r, m) ==
    IF get(S, r) = m THEN S
    ELSE LET S2 == [S EXCEPT !.map = mapSet(@, r, m), !.dl[r] = m]
         IN  IF S2.models[m].disposed THEN S2
             ELSE [S2 EXCEPT !.models[m].onDispose =
                                 @ \cup {[kind |-> "remove", resource |-> r]}]

add(S, r, m) ==
    IF get(S, r) = m THEN S
    ELSE LET S1 == IF S.dl[r] # NoModel
                   THEN unsubscribeDispose(S, r, S.dl[r])
                   ELSE S
             S2 == [S1 EXCEPT !.map = mapSet(@, r, m), !.dl[r] = m]
         IN  IF S2.models[m].disposed THEN S2
             ELSE [S2 EXCEPT !.models[m].onDispose =
                                 @ \cup {[kind |-> "remove", resource |-> r]}]

\* the dispose listener that fires onModelDisposed before it removes
disposeListenerFiresFirst(S, r) == remove(fire(S, "onModelDisposed", r, NoModel), r)

\* the listener add() installs on model.onDispose
disposeListener(S, r) == fire(remove(S, r), "onModelDisposed", r, NoModel)

\* the once(model.onDispose) listener dirtyModelIfPossible installs
undoDisposeListener(S, r) == [S EXCEPT !.undo[r] = NoUndo]

RECURSIVE runOnDispose(_, _)
runOnDispose(S, ls) ==
    IF ls = {} THEN S
    ELSE LET l == IF \E x \in ls : x.kind = "remove"
                  THEN CHOOSE x \in ls : x.kind = "remove"
                  ELSE CHOOSE x \in ls : TRUE
             S1 == IF l.kind = "remove" THEN disposeListener(S, l.resource)
                   ELSE undoDisposeListener(S, l.resource)
         IN  runOnDispose(S1, ls \ {l})

\* model.dispose(): marks the model disposed, runs the onDispose listeners
\* and drops every subscription on the model's emitters
modelDispose(S, m) ==
    LET S0 == call(S, "dispose", m)
    IN  IF S0.models[m].disposed THEN S0
        ELSE LET ls == S0.models[m].onDispose
                 S1 == [S0 EXCEPT !.models[m].disposed = TRUE,
                                  !.models[m].onDispose = {},
                                  !.models[m].onDidStateChange = FALSE,
                                  !.models[m].onDidContentChange = FALSE]
             IN  runOnDispose(S1, ls)

\* ------------------------------------------------------- eligibility
\* hasState that does not look at the pending loads
hasStateIgnoresPending(S, m, state) ==
    /\ m # NoModel
    /\ ~S.models[m].disposed
    /\ S.models[m].state = state

hasState(S, m, state) ==
    /\ m # NoModel
    /\ ~S.models[m].disposed
    /\ S.pend[S.models[m].resource] = NoModel
    /\ S.models[m].state = state

\* the resource is open in a visible editor
isOpen(S, r) == r \in S.editors

\* model.textEditorModel exists and is shown in an open editor
isAttachedToEditor(S, m) ==
    S.models[m].loaded /\ S.models[m].resource \in S.editors

\* canDispose without the check for an attached editor
canDisposeAttached(S, m) == hasState(S, m, "SAVED")

canDispose(S, m) ==
    /\ hasState(S, m, "SAVED")
    /\ ~isAttachedToEditor(S, m)

canDirty(S, m) == hasState(S, m, "SAVED")

\* canUndirty that does not ask for a stored undo
canUndirtyWithoutUndo(S, m) == hasState(S, m, "DIRTY")

canUndirty(S, m) ==
    /\ hasState(S, m, "DIRTY")
    /\ S.undo[S.models[m].resource] # NoUndo

disposeModelIfPossible(S, r) ==
    LET model == get(S, r)
    IN  IF canDispose(S, model) THEN modelDispose(S, model) ELSE S

\* dirtyModelIfPossible that does not keep the undo of setDirty
dirtyModelIfPossibleForgetful(S, r) ==
    LET model == get(S, r)
    IN  IF canDirty(S, model)
        THEN LET S1 == setDirty(S, model)
             IN  [S1 EXCEPT !.models[model].onDispose =
                                @ \cup {[kind |-> "clearUndo", resource |-> r]}]
        ELSE S

\* dirtyModelIfPossible that does not listen to the disposal of the model
dirtyModelIfPossibleUnlistened(S, r) ==
    LET model == get(S, r)
    IN  IF canDirty(S, model)
        THEN LET undo == [model |-> model, state |-> S.models[model].state]
                 S1 == setDirty(S, model)
             IN  [S1 EXCEPT !.undo[r] = undo]
        ELSE S

dirtyModelIfPossible(S, r) ==
    LET model == get(S, r)
    IN  IF canDirty(S, model)
        THEN LET undo == [model |-> model, state |-> S.models[model].state]
                 S1 == setDirty(S, model)
             IN  [S1 EXCEPT !.undo[r] = undo,
                            !.models[model].onDispose =
                                @ \cup {[kind |-> "clearUndo", resource |-> r]}]
        ELSE S

\* undirtyModelIfPossible that leaves the undo in the map
undirtyModelIfPossibleKeepsUndo(S, r) ==
    LET model == get(S, r)
    IN  IF canUndirty(S, model)
        THEN LET undo == S.undo[r]
                 S1 == call(S, "undo", undo.model)
             IN  IF undo = NoUndo THEN S1
                 ELSE [S1 EXCEPT !.models[undo.model].state = undo.state]
        ELSE S

undirtyModelIfPossible(S, r) ==
    LET model == get(S, r)
    IN  IF canUndirty(S, model)
        THEN LET undo == S.undo[r]
                 S1 == call(S, "undo", undo.model)
                 S2 == IF undo = NoUndo THEN S1
                       ELSE [S1 EXCEPT !.models[undo.model].state = undo.state]
             IN  [S2 EXCEPT !.undo[r] = NoUndo]
        ELSE S

\* ------------------------------------------------------ event handlers
\* onConfigurationUpdated that keeps the flag when the setting is absent
onConfigurationUpdatedKeeps(S, configuration) ==
    IF configuration \in {"true", "false"}
    THEN [S EXCEPT !.flag = (configuration = "true")]
    ELSE S

onConfigurationUpdated(S, configuration) ==
    IF configuration \in {"true", "false"}
    THEN [S EXCEPT !.flag = (configuration = "true")]
    ELSE [S EXCEPT !.flag = TRUE]

\* onFileOperation that follows the setting as onFileChanges does
onFileOperationBySetting(S, operation, r) ==
    IF operation = "MOVE" \/ operation = "DELETE"
    THEN IF ~S.flag THEN dirtyModelIfPossible(S, r)
         ELSE disposeModelIfPossible(S, r)
    ELSE S

onFileOperation(S, operation, r) ==
    IF operation = "MOVE" \/ operation = "DELETE"
    THEN disposeModelIfPossible(S, r)
    ELSE S

\* the loop over the added files that does not ask for the setting
RECURSIVE forEachAddedAlways(_, _)
forEachAddedAlways(S, added) ==
    IF added = <<>> THEN S
    ELSE forEachAddedAlways(undirtyModelIfPossible(S, Head(added)), Tail(added))

RECURSIVE forEachAdded(_, _)
forEachAdded(S, added) ==
    IF added = <<>> THEN S
    ELSE forEachAdded(IF ~S.flag THEN undirtyModelIfPossible(S, Head(added))
                      ELSE S,
                      Tail(added))

\* the loop over the deleted files with the branches on the setting swapped
RECURSIVE forEachDeletedSwapped(_, _)
forEachDeletedSwapped(S, deleted) ==
    IF deleted = <<>> THEN S
    ELSE forEachDeletedSwapped(
             IF S.flag THEN dirtyModelIfPossible(S, Head(deleted))
             ELSE disposeModelIfPossible(S, Head(deleted)),
             Tail(deleted))

RECURSIVE forEachDeleted(_, _)
forEachDeleted(S, deleted) ==
    IF deleted = <<>> THEN S
    ELSE forEachDeleted(IF ~S.flag THEN dirtyModelIfPossible(S, Head(deleted))
                        ELSE disposeModelIfPossible(S, Head(deleted)),
                        Tail(deleted))

\* onFileChanges that walks the deleted files before the added ones
onFileChangesDeletedFirst(S, added, deleted) ==
    forEachAdded(forEachDeleted(S, deleted), added)

onFileChanges(S, added, deleted) ==
    forEachDeleted(forEachAdded(S, added), deleted)

getAll(S) == [i \in DOMAIN S.map |-> S.map[i].value]

RECURSIVE forEachUnused(_, _)
forEachUnused(S, ms) ==
    IF ms = <<>> THEN S
    ELSE forEachUnused(disposeModelIfPossible(S, S.models[Head(ms)].resource),
                       Tail(ms))

\* disposeUnusedModels with the filter on the open editors turned around
disposeUnusedModelsOpen(S) ==
    forEachUnused(S, SelectSeq(getAll(S),
                               LAMBDA m : isOpen(S, S.models[m].resource)))

disposeUnusedModels(S) ==
    forEachUnused(S, SelectSeq(getAll(S),
                               LAMBDA m : ~isOpen(S, S.models[m].resource)))

\* clear() that leaves the state change listeners alone
clearKeepsStateListeners(S) ==
    LET held(h) == {h[r] : r \in Resources} \ {NoModel}
        off(ms) == [m \in DOMAIN S.models |->
            [ms[m] EXCEPT
               !.onDispose = IF m \in held(S.dl)
                             THEN {l \in @ : ~(l.kind = "remove" /\ S.dl[l.resource] = m)}
                             ELSE @,
               !.onDidContentChange = IF m \in held(S.cl) THEN FALSE ELSE @]]
    IN  [S EXCEPT !.map = <<>>,
                  !.models = off(@),
                  !.dl = [r \in Resources |-> NoModel],
                  !.cl = [r \in Resources |-> NoModel]]

\* clear() that empties the map of the pending loads as well
clearDropsPending(S) ==
    LET held(h) == {h[r] : r \in Resources} \ {NoModel}
        off(ms) == [m \in DOMAIN S.models |->
            [ms[m] EXCEPT
               !.onDispose = IF m \in held(S.dl)
                             THEN {l \in @ : ~(l.kind = "remove" /\ S.dl[l.resource] = m)}
                             ELSE @,
               !.onDidStateChange = IF m \in held(S.sl) THEN FALSE ELSE @,
               !.onDidContentChange = IF m \in held(S.cl) THEN FALSE ELSE @]]
    IN  [S EXCEPT !.map = <<>>,
                  !.models = off(@),
                  !.dl = [r \in Resources |-> NoModel],
                  !.sl = [r \in Resources |-> NoModel],
                  !.cl = [r \in Resources |-> NoModel],
                  !.pend = [r \in Resources |-> NoModel]]

clear(S) ==
    LET held(h) == {h[r] : r \in Resources} \ {NoModel}
        off(ms) == [m \in DOMAIN S.models |->
            [ms[m] EXCEPT
               !.onDispose = IF m \in held(S.dl)
                             THEN {l \in @ : ~(l.kind = "remove" /\ S.dl[l.resource] = m)}
                             ELSE @,
               !.onDidStateChange = IF m \in held(S.sl) THEN FALSE ELSE @,
               !.onDidContentChange = IF m \in held(S.cl) THEN FALSE ELSE @]]
    IN  [S EXCEPT !.map = <<>>,
                  !.models = off(@),
                  !.dl = [r \in Resources |-> NoModel],
                  !.sl = [r \in Resources |-> NoModel],
                  !.cl = [r \in Resources |-> NoModel]]

\* dispose(): the emitters and the listeners on the editor group service,
\* the file service and the configuration service, all in toUnbind, are
\* disposed
dispose(S) == [S EXCEPT !.bound = FALSE]

\* ----------------------------------------------------------- loadOrCreate
\* the success continuation without the DIRTY event for a restored backup
loadResolvedSilent(S, r, m) ==
    LET S1 == add(S, r, m)
    IN  [S1 EXCEPT !.pend[r] = NoModel, !.ret[r] = {}, !.out.then = Resolved(m),
                   !.out.resource = r, !.out.model = m, !.out.to = S.ret[r]]

\* the success continuation that removes the pending load before it fires
\* the DIRTY event
loadResolvedClearsFirst(S, r, m) ==
    LET S1 == [add(S, r, m) EXCEPT !.pend[r] = NoModel]
        S2 == IF isDirty(S1, m) THEN fire(S1, "onModelDirty", r, m) ELSE S1
    IN  [S2 EXCEPT !.ret[r] = {}, !.out.then = Resolved(m),
                   !.out.resource = r, !.out.model = m, !.out.to = S.ret[r]]

\* the success continuation of loadOrCreate
loadResolved(S, r, m) ==
    LET S1 == add(S, r, m)
        S2 == IF isDirty(S1, m) THEN fire(S1, "onModelDirty", r, m) ELSE S1
    IN  [S2 EXCEPT !.pend[r] = NoModel, !.ret[r] = {}, !.out.then = Resolved(m),
                   !.out.resource = r, !.out.model = m, !.out.to = S.ret[r]]

\* the failure continuation that swallows the error: no wrapError
loadRejectedSwallowed(S, r, m, error) ==
    LET S1 == modelDispose(S, m)
    IN  [S1 EXCEPT !.pend[r] = NoModel, !.ret[r] = {},
                   !.out.then = Resolved(NoModel),
                   !.out.resource = r, !.out.model = m, !.out.to = S.ret[r]]

\* the failure continuation that leaves the pending load in the map
loadRejectedStillPending(S, r, m, error) ==
    LET S1 == modelDispose(S, m)
    IN  [S1 EXCEPT !.out.then = Rejected(error),
                   !.out.resource = r, !.out.model = m, !.out.to = S.ret[r]]

\* the failure continuation that does not dispose the model
loadRejectedUndisposed(S, r, m, error) ==
    [S EXCEPT !.pend[r] = NoModel, !.ret[r] = {},
              !.out.then = Rejected(error),
              !.out.resource = r, !.out.model = m, !.out.to = S.ret[r]]

\* the failure continuation that disposes the model only when it is not the
\* registered one
loadRejectedSparesRegistered(S, r, m, error) ==
    LET S1 == IF get(S, r) = m THEN S ELSE modelDispose(S, m)
    IN  [S1 EXCEPT !.pend[r] = NoModel, !.ret[r] = {},
                   !.out.then = Rejected(error),
                   !.out.resource = r, !.out.model = m, !.out.to = S.ret[r]]

\* the failure continuation of loadOrCreate
loadRejected(S, r, m, error) ==
    LET S1 == modelDispose(S, m)
    IN  [S1 EXCEPT !.pend[r] = NoModel, !.ret[r] = {},
                   !.out.then = Rejected(error),
                   !.out.resource = r, !.out.model = m, !.out.to = S.ret[r]]

\* model.load(): one more load of the model is in flight
modelLoad(S, m) == [call(S, "load", m) EXCEPT !.models[m].loading = @ + 1]

\* the promise loadOrCreate hands to its caller
loadOrCreateReturns(S, r) ==
    IF S.pend[r] # NoModel THEN [load |-> S.pend[r], then |-> FALSE]
    ELSE IF get(S, r) # NoModel THEN [load |-> get(S, r), then |-> TRUE]
    ELSE [load |-> Len(S.models) + 1, then |-> TRUE]

\* loadOrCreate that registers a new model before its load has settled
startLoadRegisters(S, r, encoding, refresh) ==
    LET p == loadOrCreateReturns(S, r)
        model == get(S, r)
    IN  IF model # NoModel
        THEN IF ~refresh
             THEN LET S1 == [S EXCEPT !.pend[r] = model,
                                      !.ret[r] = {p},
                                      !.out.raw = Resolved(model)]
                  IN  loadResolved(S1, r, model)
             ELSE [modelLoad(S, model) EXCEPT
                       !.pend[r] = model,
                       !.ret[r] = {p}]
        ELSE LET m == Len(S.models) + 1
                 S1 == [callWith(S, "createInstance", m, encoding) EXCEPT
                           !.models = Append(@, NewModel(r))]
                 S2 == add(modelLoad(S1, m), r, m)
             IN  [S2 EXCEPT !.sl[r] = m,
                            !.models[m].onDidStateChange = TRUE,
                            !.cl[r] = m,
                            !.models[m].onDidContentChange = TRUE,
                            !.pend[r] = m,
                            !.ret[r] = {p}]

\* loadOrCreate that reloads the registered model whatever refresh is
startLoadAlwaysLoads(S, r, encoding, refresh) ==
    LET p == loadOrCreateReturns(S, r)
        model == get(S, r)
    IN  IF model # NoModel
        THEN [modelLoad(S, model) EXCEPT
                  !.pend[r] = model,
                  !.ret[r] = {p}]
        ELSE LET m == Len(S.models) + 1
                 S1 == [callWith(S, "createInstance", m, encoding) EXCEPT
                           !.models = Append(@, NewModel(r))]
                 S2 == modelLoad(S1, m)
             IN  [S2 EXCEPT !.sl[r] = m,
                            !.models[m].onDidStateChange = TRUE,
                            !.cl[r] = m,
                            !.models[m].onDidContentChange = TRUE,
                            !.pend[r] = m,
                            !.ret[r] = {p}]

\* loadOrCreate that installs no listener on the model it creates
startLoadUnlistened(S, r, encoding, refresh) ==
    LET p == loadOrCreateReturns(S, r)
        model == get(S, r)
    IN  IF model # NoModel
        THEN IF ~refresh
             THEN LET S1 == [S EXCEPT !.pend[r] = model,
                                      !.ret[r] = {p},
                                      !.out.raw = Resolved(model)]
                  IN  loadResolved(S1, r, model)
             ELSE [modelLoad(S, model) EXCEPT
                       !.pend[r] = model,
                       !.ret[r] = {p}]
        ELSE LET m == Len(S.models) + 1
                 S1 == [callWith(S, "createInstance", m, encoding) EXCEPT
                           !.models = Append(@, NewModel(r))]
                 S2 == modelLoad(S1, m)
             IN  [S2 EXCEPT !.pend[r] = m,
                            !.ret[r] = {p}]

\* loadOrCreate that hands out the cached model without the DIRTY event
startLoadCachedSilent(S, r, encoding, refresh) ==
    LET p == loadOrCreateReturns(S, r)
        model == get(S, r)
    IN  IF model # NoModel
        THEN IF ~refresh
             THEN LET S1 == [S EXCEPT !.pend[r] = model,
                                      !.ret[r] = {p},
                                      !.out.raw = Resolved(model)]
                  IN  loadResolvedSilent(S1, r, model)
             ELSE [modelLoad(S, model) EXCEPT
                       !.pend[r] = model,
                       !.ret[r] = {p}]
        ELSE LET m == Len(S.models) + 1
                 S1 == [callWith(S, "createInstance", m, encoding) EXCEPT
                           !.models = Append(@, NewModel(r))]
                 S2 == modelLoad(S1, m)
             IN  [S2 EXCEPT !.sl[r] = m,
                            !.models[m].onDidStateChange = TRUE,
                            !.cl[r] = m,
                            !.models[m].onDidContentChange = TRUE,
                            !.pend[r] = m,
                            !.ret[r] = {p}]

\* loadOrCreate past its early return: the cached model, a reload of it, or
\* a new model instance with its listeners
startLoad(S, r, encoding, refresh) ==
    LET p == loadOrCreateReturns(S, r)
        model == get(S, r)
    IN  IF model # NoModel
        THEN IF ~refresh
             THEN LET S1 == [S EXCEPT !.pend[r] = model,
                                      !.ret[r] = {p},
                                      !.out.raw = Resolved(model)]
                  IN  loadResolved(S1, r, model)
             ELSE [modelLoad(S, model) EXCEPT
                       !.pend[r] = model,
                       !.ret[r] = {p}]
        ELSE LET m == Len(S.models) + 1
                 S1 == [callWith(S, "createInstance", m, encoding) EXCEPT
                           !.models = Append(@, NewModel(r))]
                 S2 == modelLoad(S1, m)
             IN  [S2 EXCEPT !.sl[r] = m,
                            !.models[m].onDidStateChange = TRUE,
                            !.cl[r] = m,
                            !.models[m].onDidContentChange = TRUE,
                            !.pend[r] = m,
                            !.ret[r] = {p}]

\* loadOrCreate without its early return on a pending load
loadOrCreateRacing(S, r, encoding, refresh) == startLoad(S, r, encoding, refresh)

loadOrCreate(S, r, encoding, refresh) ==
    IF S.pend[r] # NoModel
    THEN [S EXCEPT !.ret[r] = @ \cup {loadOrCreateReturns(S, r)}]
    ELSE startLoad(S, r, encoding, refresh)

\* the load promise of model m settles and the continuation runs
loadSettles(S, m, ok, error, backup) ==
    LET r == S.models[m].resource
        S1 == [S EXCEPT !.models[m].loading = @ - 1]
    IN  IF ok
        THEN LET S2 == [S1 EXCEPT
                          !.models[m].state =
                              IF backup /\ ~S.models[m].loaded THEN "DIRTY" ELSE @,
                          !.models[m].loaded = TRUE,
                          !.out.raw = Resolved(m)]
             IN  loadResolved(S2, r, m)
        ELSE loadRejected([S1 EXCEPT !.out.raw = Rejected(error)], r, m, error)

\* ------------------------------------------------------- batched events
\* debounceEvent(event, merger, delay): a new stream that listens to the
\* event, holds what the merger made of the events since its last emission
\* and has a timer running from the last of them
NewStream(event) == [event |-> event, output |-> <<>>, handle |-> FALSE]

debounce(S, event) == [S EXCEPT !.streams = Append(@, NewStream(event))]

\* the onModelsSaved getter without its cache
onModelsSavedUncached(S) ==
    LET S1 == [debounce(S, "onModelSaved") EXCEPT
                  !.batched.onModelsSaved = Len(S.streams) + 1]
    IN  [S1 EXCEPT !.got = S1.batched.onModelsSaved]

onModelsDirty(S) ==
    LET S1 == IF S.batched.onModelsDirtyEvent = NoStream
              THEN [debounce(S, "onModelDirty") EXCEPT
                       !.batched.onModelsDirtyEvent = Len(S.streams) + 1]
              ELSE S
    IN  [S1 EXCEPT !.got = S1.batched.onModelsDirtyEvent]

onModelsSaveError(S) ==
    LET S1 == IF S.batched.onModelsSaveError = NoStream
              THEN [debounce(S, "onModelSaveError") EXCEPT
                       !.batched.onModelsSaveError = Len(S.streams) + 1]
              ELSE S
    IN  [S1 EXCEPT !.got = S1.batched.onModelsSaveError]

onModelsSaved(S) ==
    LET S1 == IF S.batched.onModelsSaved = NoStream
              THEN [debounce(S, "onModelSaved") EXCEPT
                       !.batched.onModelsSaved = Len(S.streams) + 1]
              ELSE S
    IN  [S1 EXCEPT !.got = S1.batched.onModelsSaved]

onModelsReverted(S) ==
    LET S1 == IF S.batched.onModelsReverted = NoStream
              THEN [debounce(S, "onModelReverted") EXCEPT
                       !.batched.onModelsReverted = Len(S.streams) + 1]
              ELSE S
    IN  [S1 EXCEPT !.got = S1.batched.onModelsReverted]

\* the timer of stream i runs out, debounceDelay() after the last event: the
\* stream emits what it holds and holds nothing
timeout(S, i) ==
    [S EXCEPT !.emitted = Append(@, [stream |-> i, events |-> S.streams[i].output]),
              !.streams[i].output = <<>>,
              !.streams[i].handle = FALSE]

\* ---------------------------------------------------- remoteLanguagePacks
\* getNLSConfiguration is an async function: its body up to the await of
\* Promises.exists runs in the call, and what follows the await runs in one
\* piece when the existence check settles.  A string is the sequence of its
\* parts, "||" being a part, so that the cache key is a concatenation.

\* the calls of getNLSConfiguration that are made
MaxCalls == 3

NoCommit == "undefined"
Products == {[commit |-> "c1"], [commit |-> NoCommit]}
Languages == {<<"en">>, <<"en", "||">>}
UserDataPaths == {<<"d">>, <<"||", "d">>}
nlsMetadataPath == <<"out">>
NoPromiseOfNLS == 0

join(path, name) == path \o <<"/">> \o name

\* the configuration returned without a language pack
defaultNLSConfiguration ==
    [userLocale |-> <<"en">>, osLocale |-> <<"en">>, availableLanguages |-> {},
     defaultMessagesFile |-> join(nlsMetadataPath, <<"nls.messages.json">>)]

cacheKey(language, userDataPath) == language \o <<"||">> \o userDataPath

CacheKeys == {cacheKey(l, u) : l \in Languages, u \in UserDataPaths}

\* the module's state as one record
Nls ==
    [product |-> product,
     cache |-> nlsConfigurationCache,
     promises |-> nlsPromises,
     calls |-> nlsCalls]

\* resolveNLSConfiguration(options): a promise that has not settled
resolveNLSConfiguration(N, options) ==
    [N EXCEPT !.promises = Append(@, [options |-> options, status |-> "pending"])]

\* the call returns: the promise of the async function is resolved with
\* `result`, a configuration or the promise found in or put into the cache
return(N, c, result) ==
    [N EXCEPT !.calls[c].pc = "returned", !.calls[c].result = result]

Configuration(configuration) == [promise |-> NoPromiseOfNLS, value |-> <<configuration>>]
PromiseOfNLS(p) == [promise |-> p, value |-> <<>>]
NoResult == [promise |-> NoPromiseOfNLS, value |-> <<>>]
Answer(exists) == IF exists THEN "yes" ELSE "no"

\* the cache lookup with the promise made on a miss never stored
afterExistsUncached(N, c, exists) ==
    LET made == N.calls[c]
        key == cacheKey(made.language, made.userDataPath)
        R == [N EXCEPT !.calls[c].exists = Answer(exists), !.calls[c].reads = @ + 1]
        M == resolveNLSConfiguration(R,
                 [userLocale |-> made.language, osLocale |-> made.language,
                  commit |-> N.product.commit, userDataPath |-> made.userDataPath,
                  nlsMetadataPath |-> nlsMetadataPath])
    IN  IF ~exists
        THEN return([N EXCEPT !.calls[c].exists = Answer(exists)], c, Configuration(defaultNLSConfiguration))
        ELSE IF N.cache[key] # NoPromiseOfNLS
             THEN return(R, c, PromiseOfNLS(N.cache[key]))
             ELSE return(M, c, PromiseOfNLS(Len(M.promises)))

\* what follows `await Promises.exists(nlsMetadataPath)`
afterExists(N, c, exists) ==
    LET made == N.calls[c]
        key == cacheKey(made.language, made.userDataPath)
        R == [N EXCEPT !.calls[c].exists = Answer(exists), !.calls[c].reads = @ + 1]
        M == resolveNLSConfiguration(R,
                 [userLocale |-> made.language, osLocale |-> made.language,
                  commit |-> N.product.commit, userDataPath |-> made.userDataPath,
                  nlsMetadataPath |-> nlsMetadataPath])
        W == [M EXCEPT !.cache[key] = Len(M.promises), !.calls[c].writes = @ + 1]
    IN  IF ~exists
        THEN return([N EXCEPT !.calls[c].exists = Answer(exists)], c, Configuration(defaultNLSConfiguration))
        ELSE IF N.cache[key] # NoPromiseOfNLS
             THEN return(R, c, PromiseOfNLS(N.cache[key]))
             ELSE return(W, c, PromiseOfNLS(Len(W.promises)))

\* the call up to its first await
getNLSConfiguration(N, language, userDataPath) ==
    LET c == Len(N.calls) + 1
        C == [N EXCEPT !.calls = Append(@,
                 [language |-> language, userDataPath |-> userDataPath,
                  pc |-> "exists", exists |-> "unknown", result |-> NoResult,
                  reads |-> 0, writes |-> 0])]
    IN  IF N.product.commit = NoCommit
        THEN return(C, c, Configuration(defaultNLSConfiguration))
        ELSE C

\* the promise of resolveNLSConfiguration settles
settle(N, p, ok) ==
    [N EXCEPT !.promises[p].status = IF ok THEN "resolved" ELSE "rejected"]

CommitNls(N) ==
    /\ nlsConfigurationCache' = N.cache
    /\ nlsPromises' = N.promises
    /\ nlsCalls' = N.calls
    /\ UNCHANGED <<product, managerVars, diffVars>>

GetNLSConfiguration(language, userDataPath) ==
    /\ Len(nlsCalls) < MaxCalls
    /\ CommitNls(getNLSConfiguration(Nls, language, userDataPath))

ExistsSettles(c, exists) ==
    /\ nlsCalls[c].pc = "exists"
    /\ CommitNls(afterExists(Nls, c, exists))

ResolveNLSSettles(p, ok) ==
    /\ nlsPromises[p].status = "pending"
    /\ CommitNls(settle(Nls, p, ok))

NlsInit ==
    /\ nlsConfigurationCache = [k \in CacheKeys |-> NoPromiseOfNLS]
    /\ nlsPromises = <<>>
    /\ nlsCalls = <<>>

\* --------------------------------------------------------- DiffEditorInput
\* resolve() awaits createModel(), which awaits the resolve() of the two
\* inputs: the call up to the awaits, the rest of createModel when the inputs
\* have resolved, and the rest of resolve() when createModel has returned are
\* three steps.  A diff model is a position in the sequence diffModels.

\* the calls of resolve() that are made
MaxResolves == 3

NoDiffModel == 0

\* the input's state as one record
Diff ==
    [cached |-> cachedModel,
     models |-> diffModels,
     calls |-> resolveCalls,
     disposed |-> inputDisposed]

\* DiffEditorModel.dispose
disposeDiffModel(D, m) == [D EXCEPT !.models[m].disposed = TRUE]

\* resolve() up to `await this.createModel()`, createModel() up to its await
resolve(D) ==
    [D EXCEPT !.calls = Append(@, [pc |-> "createModel", model |-> NoDiffModel,
                                   afterDispose |-> D.disposed])]

\* createModel() after both inputs have resolved
createModel(D, c, originalIsText, modifiedIsText) ==
    LET kind == IF modifiedIsText /\ originalIsText
                THEN "TextDiffEditorModel" ELSE "DiffEditorModel"
        M == [D EXCEPT !.models = Append(@, [kind |-> kind, disposed |-> FALSE])]
    IN  [M EXCEPT !.calls[c].pc = "resolve", !.calls[c].model = Len(M.models)]

\* one of the inputs fails to resolve: createModel() and resolve() reject
createModelRejects(D, c) == [D EXCEPT !.calls[c].pc = "rejected"]

\* resolve() after `await this.createModel()`
resolved(D, c) ==
    LET P == IF D.cached # NoDiffModel THEN disposeDiffModel(D, D.cached) ELSE D
    IN  [P EXCEPT !.cached = D.calls[c].model, !.calls[c].pc = "returned"]

\* dispose(): the cached model, then EditorInput.dispose
disposeInput(D) ==
    LET P == IF D.cached # NoDiffModel
             THEN [disposeDiffModel(D, D.cached) EXCEPT !.cached = NoDiffModel]
             ELSE D
    IN  [P EXCEPT !.disposed = TRUE]

CommitDiff(D) ==
    /\ cachedModel' = D.cached
    /\ diffModels' = D.models
    /\ resolveCalls' = D.calls
    /\ inputDisposed' = D.disposed
    /\ UNCHANGED <<managerVars, nlsVars>>

Resolve ==
    /\ Len(resolveCalls) < MaxResolves
    /\ CommitDiff(resolve(Diff))

InputsResolve(c, originalIsText, modifiedIsText) ==
    /\ resolveCalls[c].pc = "createModel"
    /\ CommitDiff(createModel(Diff, c, originalIsText, modifiedIsText))

InputsReject(c) ==
    /\ resolveCalls[c].pc = "createModel"
    /\ CommitDiff(createModelRejects(Diff, c))

ResolveContinues(c) ==
    /\ resolveCalls[c].pc = "resolve"
    /\ CommitDiff(resolved(Diff, c))

DisposeInput == CommitDiff(disposeInput(Diff))

DiffInit ==
    /\ cachedModel = NoDiffModel
    /\ diffModels = <<>>
    /\ resolveCalls = <<>>
    /\ inputDisposed = FALSE

\* ------------------------------------------------------------------ Init
InitialFlag(configuration) ==
    onConfigurationUpdated([flag |-> TRUE], configuration).flag

ManagerInit ==
    /\ \E configuration \in Configurations :
           disposeOnExternalFileDelete = InitialFlag(configuration)
    /\ toUnbind = TRUE
    /\ mapResourceToModel = <<>>
    /\ mapResourceToDisposeListener = [r \in Resources |-> NoModel]
    /\ mapResourceToStateChangeListener = [r \in Resources |-> NoModel]
    /\ mapResourceToModelContentChangeListener = [r \in Resources |-> NoModel]
    /\ mapResourceToPendingModelLoaders = [r \in Resources |-> NoModel]
    /\ mapResourceToUndoDirtyFromExternalDelete = [r \in Resources |-> NoUndo]
    /\ models = <<>>
    /\ editors = {}
    /\ returned = [r \in Resources |-> {}]
    /\ outcome = NoOutcome
    /\ fired = <<>>
    /\ calls = <<>>
    /\ onModelsEvents = [onModelsDirtyEvent |-> NoStream,
                         onModelsSaveError |-> NoStream,
                         onModelsSaved |-> NoStream,
                         onModelsReverted |-> NoStream]
    /\ streams = <<>>
    /\ emitted = <<>>
    /\ got = NoStream
    /\ lastOp = "constructor"

\* the manager on its own: the language packs and the diff input of the
\* process are left idle
Init ==
    /\ ManagerInit
    /\ product = [commit |-> "c1"]
    /\ NlsInit
    /\ DiffInit

\* --------------------------------------------------------------- actions
Created == DOMAIN models

LoadOrCreate(r, encoding, refresh) ==
    /\ \/ mapResourceToPendingModelLoaders[r] # NoModel
       \/ mapHas(mapResourceToModel, r)
       \/ Len(models) < MaxModels
    /\ Commit(loadOrCreate(St, r, encoding, refresh), "loadOrCreate")

LoadSettles(m, ok, error, backup) ==
    /\ models[m].loading > 0
    /\ Commit(loadSettles(St, m, ok, error, backup), "loadSettles")

Add(r, m) ==
    /\ models[m].resource = r
    /\ ~models[m].disposed
    /\ Commit(add(St, r, m), "add")

\* add() of a model instance that was created outside the manager
AddCreated(r, loaded) ==
    /\ Len(models) < MaxModels
    /\ LET m == Len(models) + 1
           S1 == [St EXCEPT !.models =
                      Append(@, [NewModel(r) EXCEPT !.loaded = loaded])]
       IN  Commit(add(S1, r, m), "add")

Remove(r) == Commit(remove(St, r), "remove")

Clear == Commit(clear(St), "clear")

OnConfigurationUpdated(configuration) ==
    /\ toUnbind
    /\ Commit(onConfigurationUpdated(St, configuration), "onConfigurationUpdated")

OnFileOperation(operation, r) ==
    /\ toUnbind
    /\ Commit(onFileOperation(St, operation, r), "onFileOperation")

OnFileChanges(added, deleted) ==
    /\ toUnbind
    /\ added # <<>> \/ deleted # <<>>
    /\ Commit(onFileChanges(St, added, deleted), "onFileChanges")

\* an editor for r opens: onEditorsChanged fires
OnEditorsChanged(r) ==
    /\ r \notin editors
    /\ LET S1 == [St EXCEPT !.editors = @ \cup {r}]
       IN  Commit(IF toUnbind THEN disposeUnusedModels(S1) ELSE S1,
                  "onEditorsChanged")

\* the editor of r closes: onEditorClosed fires
OnEditorClosed(r) ==
    /\ r \in editors
    /\ LET S1 == [St EXCEPT !.editors = @ \ {r}]
       IN  Commit(IF toUnbind THEN disposeUnusedModels(S1) ELSE S1,
                  "onEditorClosed")

\* the model tells a state change (edit, save, failed save, revert, encoding)
ModelStateChange(m, change) ==
    /\ ~models[m].disposed
    /\ change = "DIRTY" => models[m].loaded
    /\ change = "SAVED" => models[m].state # "SAVED"
    /\ change = "SAVE_ERROR" => models[m].state # "SAVED"
    /\ change = "REVERTED" => models[m].state # "SAVED"
    /\ Commit(emitStateChange(
                  [St EXCEPT !.models[m].state = StateAfter(@, change)], m, change),
              "onDidStateChange")

ModelContentChange(m) ==
    /\ ~models[m].disposed
    /\ Commit(IF models[m].onDidContentChange
              THEN contentChangeListener(St, m) ELSE St,
              "onDidContentChange")

\* somebody else disposes the model (its editor input goes away)
ModelDispose(m) ==
    /\ ~models[m].disposed
    /\ Commit(modelDispose(St, m), "model.dispose")

\* the lifecycle service fires onShutdown
Dispose == Commit(dispose(St), "dispose")

OnModelsDirty == Commit(onModelsDirty(St), "onModelsDirty")

OnModelsSaveError == Commit(onModelsSaveError(St), "onModelsSaveError")

OnModelsSaved == Commit(onModelsSaved(St), "onModelsSaved")

OnModelsReverted == Commit(onModelsReverted(St), "onModelsReverted")

Timeout(i) ==
    /\ streams[i].handle
    /\ Commit(timeout(St, i), "timeout")

RECURSIVE held(_, _)
held(ss, i) == IF i > Len(ss) THEN 0 ELSE Len(ss[i].output) + held(ss, i + 1)

\* the batched streams hold fewer than MaxBatch events
Quiet == held(streams, 1) < MaxBatch

NextOn(RS) ==
    \/ \E r \in RS, encoding \in Encodings \cup {NoEncoding},
          refresh \in BOOLEAN : LoadOrCreate(r, encoding, refresh)
    \/ \E m \in Created, backup \in BOOLEAN : LoadSettles(m, TRUE, "none", backup)
    \/ \E m \in Created, error \in Errors : LoadSettles(m, FALSE, error, FALSE)
    \/ \E r \in RS, m \in Created : Add(r, m)
    \/ \E r \in RS : AddCreated(r, TRUE)
    \/ \E r \in RS : Remove(r)
    \/ Clear
    \/ \E configuration \in Configurations : OnConfigurationUpdated(configuration)
    \/ \E operation \in FileOperations, r \in RS : OnFileOperation(operation, r)
    \/ \E added \in ResourceLists(RS), deleted \in ResourceLists(RS) :
          OnFileChanges(added, deleted)
    \/ \E r \in RS : OnEditorsChanged(r)
    \/ \E r \in RS : OnEditorClosed(r)
    \/ \E m \in Created, change \in StateChanges : ModelStateChange(m, change)
    \/ \E m \in Created : ModelContentChange(m)
    \/ \E m \in Created : ModelDispose(m)

Next == NextOn(Files)

Spec == Init /\ [][Next]_vars

\* the manager with models of both resources: loads, registrations, edits
\* and saves, and the editors that open and close
NextTwo ==
    \/ \E r \in Resources : LoadOrCreate(r, NoEncoding, FALSE)
    \/ \E m \in Created, backup \in BOOLEAN : LoadSettles(m, TRUE, "none", backup)
    \/ \E m \in Created : LoadSettles(m, FALSE, "e1", FALSE)
    \/ \E r \in Resources : AddCreated(r, TRUE)
    \/ \E r \in Resources : OnEditorsChanged(r)
    \/ \E r \in Resources : OnEditorClosed(r)
    \/ \E m \in Created, change \in {"DIRTY", "SAVED"} : ModelStateChange(m, change)
    \/ \E m \in Created : ModelDispose(m)

SpecTwo == Init /\ [][NextTwo]_vars

\* the manager with consumers of the batched events: models are loaded,
\* edited, saved and reverted, the consumers read the four getters, and the
\* timers of the streams run out
NextBatch ==
    \/ OnModelsDirty
    \/ OnModelsSaveError
    \/ OnModelsSaved
    \/ OnModelsReverted
    \/ \E i \in DOMAIN streams : Timeout(i)
    \/ Quiet /\ \E r \in Files : LoadOrCreate(r, NoEncoding, FALSE)
    \/ Quiet /\ \E m \in Created, backup \in BOOLEAN :
                    LoadSettles(m, TRUE, "none", backup)
    \/ Quiet /\ \E m \in Created, change \in StateChanges \ {"ENCODING"} :
                    ModelStateChange(m, change)

\* the setting plays no part in the batched events: it is left at its default
InitBatch == Init /\ disposeOnExternalFileDelete

SpecBatch == InitBatch /\ [][NextBatch]_vars

\* the registry of both resources through to shutdown: loads that resolve or
\* fail, models registered, removed and disposed from outside, the registry
\* cleared, and the shutdown of the lifecycle service
NextRegistry ==
    \/ \E r \in Resources, refresh \in BOOLEAN : LoadOrCreate(r, NoEncoding, refresh)
    \/ \E m \in Created : LoadSettles(m, TRUE, "none", FALSE)
    \/ \E m \in Created : LoadSettles(m, FALSE, "e1", FALSE)
    \/ \E r \in Resources : AddCreated(r, TRUE)
    \/ \E r \in Resources : Remove(r)
    \/ Clear
    \/ \E m \in Created : ModelDispose(m)
    \/ Dispose

SpecRegistry == InitBatch /\ [][NextRegistry]_vars

\* the models the manager creates, of both resources: their loads, the
\* changes of state and content they tell, and their disposal from outside
NextEvents ==
    \/ \E r \in Resources, refresh \in BOOLEAN : LoadOrCreate(r, NoEncoding, refresh)
    \/ \E m \in Created, backup \in BOOLEAN : LoadSettles(m, TRUE, "none", backup)
    \/ \E m \in Created : LoadSettles(m, FALSE, "e1", FALSE)
    \/ \E m \in Created, change \in StateChanges : ModelStateChange(m, change)
    \/ \E m \in Created : ModelContentChange(m)
    \/ \E m \in Created : ModelDispose(m)

SpecEvents == InitBatch /\ [][NextEvents]_vars

\* the language packs of a server process: calls of getNLSConfiguration that
\* overlap, the existence checks they await and the resolutions that settle
NextNLS ==
    \/ \E language \in Languages, userDataPath \in UserDataPaths :
          GetNLSConfiguration(language, userDataPath)
    \/ \E c \in DOMAIN nlsCalls, exists \in BOOLEAN : ExistsSettles(c, exists)
    \/ \E p \in DOMAIN nlsPromises, ok \in BOOLEAN : ResolveNLSSettles(p, ok)

InitNLS ==
    /\ ManagerInit /\ disposeOnExternalFileDelete
    /\ product \in Products
    /\ NlsInit
    /\ DiffInit

SpecNLS == InitNLS /\ [][NextNLS]_vars

\* a diff input: calls of resolve() that overlap, the inputs that resolve or
\* fail under them, and the disposal of the input
NextDiff ==
    \/ Resolve
    \/ \E c \in DOMAIN resolveCalls, originalIsText \in BOOLEAN,
          modifiedIsText \in BOOLEAN : InputsResolve(c, originalIsText, modifiedIsText)
    \/ \E c \in DOMAIN resolveCalls : InputsReject(c)
    \/ \E c \in DOMAIN resolveCalls : ResolveContinues(c)
    \/ DisposeInput

SpecDiff == InitBatch /\ [][NextDiff]_vars

TypeOK ==
    /\ disposeOnExternalFileDelete \in BOOLEAN
    /\ Len(models) <= MaxModels
    /\ \A r \in Resources : mapResourceToPendingModelLoaders[r] \in 0..Len(models)

\* ------------------------------------------------------ reading a state
Registered(r) == mapGet(mapResourceToModel, r)
Pending(r) == mapResourceToPendingModelLoaders[r]
Inputs == (Encodings \cup {NoEncoding}) \X BOOLEAN

RECURSIVE loadsFrom(_, _, _)
loadsFrom(ms, r, i) ==
    IF i > Len(ms) THEN 0
    ELSE (IF ms[i].resource = r THEN ms[i].loading ELSE 0) + loadsFrom(ms, r, i + 1)

LoadsInFlight(r) == loadsFrom(models, r, 1)

Calls(S, c) == {i \in DOMAIN S.calls : S.calls[i].call = c}
CallsOn(S, c, m) == {i \in Calls(S, c) : S.calls[i].model = m}
Fired(S, ev) == {i \in DOMAIN S.fired : S.fired[i].event = ev}
FiredFor(S, ev, r) == {i \in Fired(S, ev) : S.fired[i].resource = r}
Now == [St EXCEPT !.fired = fired, !.calls = calls, !.out = outcome,
                 !.emitted = emitted, !.got = got]

\* ---------------------------------------------------------------- C1
\* C1: at most one load is in flight for a resource at any time, and a
\* loadOrCreate(R) made while a load for R is pending starts no load and
\* creates no model instance, whatever its encoding and refresh arguments.
C1_AtMostOneLoadInFlight ==
    \A r \in Resources :
        /\ LoadsInFlight(r) <= 1
        /\ Pending(r) # NoModel =>
               \A in \in Inputs :
                   LET T == loadOrCreate(St, r, in[1], in[2])
                   IN  /\ T.models = models
                       /\ T.calls = <<>>
                       /\ T.pend = mapResourceToPendingModelLoaders

\* a second loadOrCreate(R) was made while the load of R is in flight
C1_Witness ==
    \E r \in Resources :
        /\ lastOp = "loadOrCreate"
        /\ Pending(r) # NoModel
        /\ Cardinality(returned[r]) = 2
        /\ LoadsInFlight(r) = 1

\* ---------------------------------------------------------------- C2
\* C2 as stated: the callers of loadOrCreate(R) during one load all hold the
\* same promise, and it settles one way.
C2_SamePromise ==
    /\ \A r \in Resources : Cardinality(returned[r]) <= 1
    /\ Cardinality(outcome.to) <= 1
    /\ outcome.raw = outcome.then

\* C2, amended: the caller that starts the load holds the promise chained onto
\* the load promise, a caller that finds the load pending holds the load
\* promise itself; both belong to the one load in flight and settle alike,
\* with the same model instance or with the same error.
C2_SameOutcome ==
    /\ \A r \in Resources :
           /\ \A p \in returned[r] : p.load = Pending(r)
           /\ returned[r] # {} => [load |-> Pending(r), then |-> TRUE] \in returned[r]
    /\ \A p \in outcome.to : p.load = outcome.model
    /\ outcome.raw = outcome.then
    /\ outcome.then.status = "resolved" => outcome.then.model = outcome.model
    /\ lastOp = "loadSettles" => outcome.then.status # "pending"

\* two callers held promises of a load that was then rejected
C2_Witness ==
    /\ lastOp = "loadSettles"
    /\ Cardinality(outcome.to) = 2
    /\ outcome.then.status = "rejected"
    /\ outcome.raw.status = "rejected"

\* ---------------------------------------------------------------- C3
\* the state a handler leaves, as the next handler finds it
After(T) ==
    [T EXCEPT !.models = forget(T), !.fired = <<>>, !.calls = <<>>,
              !.out = NoOutcome, !.emitted = <<>>, !.got = NoStream]

\* P holds of what every handler other than loadOrCreate, its continuation
\* and add makes of the current state
EveryOtherHandler(P(_)) ==
    /\ \A r \in Resources : P(remove(St, r))
    /\ P(clear(St))
    /\ \A c \in Configurations : P(onConfigurationUpdated(St, c))
    /\ \A o \in FileOperations, r \in Resources : P(onFileOperation(St, o, r))
    /\ \A a \in ResourceLists(Files), d \in ResourceLists(Files) :
           P(onFileChanges(St, a, d))
    /\ \A e \in SUBSET Files : P(disposeUnusedModels([St EXCEPT !.editors = e]))
    /\ \A m \in Created :
           ~models[m].disposed =>
               /\ P(modelDispose(St, m))
               /\ P(contentChangeListener(St, m))
               /\ \A ch \in StateChanges :
                      P(emitStateChange(
                          [St EXCEPT !.models[m].state = StateAfter(@, ch)], m, ch))

\* C3: when loadOrCreate(R) resolves, get(R) is the loaded model; when the
\* registered model is disposed, by whomever, get(R) is nothing, and it stays
\* nothing until loadOrCreate (its call or its continuation) or add
\* registers a model for R again.
C3_GetFollowsLoadAndDispose ==
    /\ outcome.then.status = "resolved" =>
           Registered(outcome.resource) = outcome.then.model
    /\ \A m \in Created :
           (loadsFrom(models, models[m].resource, 1) > 0 /\ models[m].loading > 0) =>
               \A backup \in BOOLEAN :
                   get(loadSettles(St, m, TRUE, "none", backup),
                       models[m].resource) = m
    /\ \A r \in Resources :
           LET m == Registered(r)
           IN  (m # NoModel /\ ~models[m].disposed) =>
                   /\ get(modelDispose(St, m), r) = NoModel
                   /\ models[m].resource = r
    /\ \A r \in Resources :
           Registered(r) = NoModel =>
               EveryOtherHandler(LAMBDA T : get(T, r) = NoModel)

\* a model that was registered has been disposed from outside and is gone
C3_Witness ==
    \E r \in Resources :
        /\ lastOp = "model.dispose"
        /\ Registered(r) = NoModel
        /\ Len(fired) = 1
        /\ fired[1].event = "onModelDisposed" /\ fired[1].resource = r
        /\ \E m \in Created : models[m].disposed /\ CallsOn(Now, "dispose", m) # {}

\* ---------------------------------------------------------------- C4
\* C4: the pending load of R is in the map exactly while its load is
\* unsettled: the continuation clears it on success and on failure, nothing
\* else clears it, and no state has it set after the continuation has run.
C4_PendingClearedOnSettle ==
    /\ \A r \in Resources :
           Pending(r) # NoModel =>
               /\ models[Pending(r)].loading = 1
               /\ models[Pending(r)].resource = r
               /\ EveryOtherHandler(LAMBDA T : T.pend[r] = Pending(r))
    /\ outcome.then.status # "pending" => Pending(outcome.resource) = NoModel
    /\ \A m \in Created :
           models[m].loading > 0 =>
               /\ Pending(models[m].resource) = m
               /\ \A backup \in BOOLEAN :
                      loadSettles(St, m, TRUE, "none", backup)
                          .pend[models[m].resource] = NoModel
               /\ \A e \in Errors :
                      loadSettles(St, m, FALSE, e, FALSE)
                          .pend[models[m].resource] = NoModel

\* a load was rejected and its pending load is gone
C4_Witness ==
    /\ lastOp = "loadSettles"
    /\ outcome.then.status = "rejected"
    /\ Pending(outcome.resource) = NoModel
    /\ models[outcome.model].loading = 0

\* ---------------------------------------------------------------- C5
\* C5: when the first load of a resource that has no registered model fails,
\* the new model is disposed, the pending load is cleared, the caller's
\* promise is rejected with the error of the load, get(R) is nothing, no load
\* is started by that or by any handler but loadOrCreate, and the next
\* loadOrCreate(R) loads a new model instance.
C5_FailedFirstLoad ==
    /\ EveryOtherHandler(LAMBDA T : Calls(T, "load") = {}
                                    /\ Calls(T, "createInstance") = {})
    /\ \A m \in Created, e \in Errors :
           LET r == models[m].resource
               T == loadSettles(St, m, FALSE, e, FALSE)
           IN  (models[m].loading > 0 /\ Registered(r) = NoModel) =>
                   /\ T.models[m].disposed
                   /\ CallsOn(T, "dispose", m) # {}
                   /\ T.pend[r] = NoModel
                   /\ T.out.then = Rejected(e)
                   /\ get(T, r) = NoModel
                   /\ Calls(T, "load") = {}
                   /\ Calls(T, "createInstance") = {}
                   /\ Len(models) < MaxModels =>
                          \A in \in Inputs :
                              LET U == loadOrCreate(After(T), r, in[1], in[2])
                                  n == Len(models) + 1
                              IN  /\ Len(U.models) = n
                                  /\ CallsOn(U, "createInstance", n) # {}
                                  /\ CallsOn(U, "load", n) # {}
                                  /\ U.models[n].loading = 1
                                  /\ ~U.models[n].disposed
                                  /\ U.pend[r] = n

\* the first load of a resource has failed: its model is disposed and was
\* never registered
C5_Witness ==
    /\ lastOp = "loadSettles"
    /\ outcome.then.status = "rejected"
    /\ models[outcome.model].disposed
    /\ Registered(outcome.resource) = NoModel
    /\ fired = <<>>
    /\ CallsOn(Now, "dispose", outcome.model) # {}

\* ---------------------------------------------------------------- C6
\* C6: the success continuation of a load fires onModelDirty once if the
\* model is dirty at that point, although the model told no state change,
\* and fires nothing if the model is not dirty.
C6_DirtyAfterLoad ==
    \A m \in Created, backup \in BOOLEAN :
        LET r == models[m].resource
            T == loadSettles(St, m, TRUE, "none", backup)
            dirty == {i \in FiredFor(T, "onModelDirty", r) : T.fired[i].model = m}
        IN  models[m].loading > 0 =>
                /\ Cardinality(dirty) = IF isDirty(T, m) THEN 1 ELSE 0
                /\ Len(T.fired) = Cardinality(dirty)
                /\ (backup /\ ~models[m].loaded) => isDirty(T, m)

\* a load has resolved with a model restored from a backup: one DIRTY event
C6_Witness ==
    /\ lastOp = "loadSettles"
    /\ outcome.then.status = "resolved"
    /\ models[outcome.model].state = "DIRTY"
    /\ Len(fired) = 1
    /\ fired[1].event = "onModelDirty" /\ fired[1].model = outcome.model

\* ---------------------------------------------------------------- C7
\* r is one of the resources of the list
Among(r, list) == \E i \in DOMAIN list : list[i] = r

\* C7: with closeOnExternalFileDelete true or unset, a file change event that
\* reports R deleted, R registered with a model that is SAVED, not disposed,
\* without a pending load and not shown in an editor, disposes that model,
\* removes R from the registry and fires onModelDisposed(R).
C7_ExternalDeleteDisposes ==
    /\ \A c \in Configurations \ {"false"} : onConfigurationUpdated(St, c).flag
    /\ \A r \in Resources, a \in ResourceLists(Files), d \in ResourceLists(Files) :
           LET m == Registered(r)
               T == onFileChanges(St, a, d)
           IN  (/\ disposeOnExternalFileDelete
                /\ Among(r, d)
                /\ m # NoModel
                /\ models[m].state = "SAVED"
                /\ ~models[m].disposed
                /\ Pending(r) = NoModel
                /\ r \notin editors) =>
                   /\ T.models[m].disposed
                   /\ Cardinality(CallsOn(T, "dispose", m)) = 1
                   /\ get(T, r) = NoModel
                   /\ ~mapHas(T.map, r)
                   /\ Cardinality(FiredFor(T, "onModelDisposed", r)) = 1

\* an external delete has disposed the model of a resource
C7_Witness ==
    \E r \in Resources, m \in Created :
        /\ lastOp = "onFileChanges"
        /\ disposeOnExternalFileDelete
        /\ models[m].disposed
        /\ models[m].resource = r
        /\ CallsOn(Now, "dispose", m) # {}
        /\ Registered(r) = NoModel
        /\ FiredFor(Now, "onModelDisposed", r) # {}

ForcedDirty(r, P(_, _)) ==
    \A a \in ResourceLists(Files), d \in ResourceLists(Files) :
        LET m == Registered(r)
        IN  (/\ ~disposeOnExternalFileDelete
             /\ Among(r, d)
             /\ m # NoModel
             /\ models[m].state = "SAVED"
             /\ ~models[m].disposed
             /\ Pending(r) = NoModel) =>
                P(m, onFileChanges(St, a, d))

\* C9 as stated: the external delete marks the model dirty, fires a DIRTY
\* event, records the undo and neither disposes nor unregisters the model.
C9_ForcedDirtyFires ==
    \A r \in Resources :
        ForcedDirty(r, LAMBDA m, T :
            /\ T.models[m].state = "DIRTY"
            /\ FiredFor(T, "onModelDirty", r) # {}
            /\ T.undo[r] # NoUndo
            /\ ~T.models[m].disposed
            /\ get(T, r) = m)

\* C9, amended: the external delete marks the model dirty, records the undo
\* and neither disposes nor unregisters the model; onModelDirty fires, once,
\* exactly when the manager listens to the state changes of the model.
C9_ForcedDirty ==
    \A r \in Resources :
        ForcedDirty(r, LAMBDA m, T :
            /\ T.models[m].state = "DIRTY"
            /\ Cardinality(CallsOn(T, "setDirty", m)) = 1
            /\ Cardinality(FiredFor(T, "onModelDirty", r)) =
                   IF models[m].onDidStateChange THEN 1 ELSE 0
            /\ T.undo[r] = [model |-> m, state |-> "SAVED"]
            /\ ~T.models[m].disposed
            /\ CallsOn(T, "dispose", m) = {}
            /\ get(T, r) = m)

\* an external delete has forced a listened-to model dirty
C9_Witness ==
    \E r \in Resources :
        LET m == Registered(r)
        IN  /\ lastOp = "onFileChanges"
            /\ ~disposeOnExternalFileDelete
            /\ m # NoModel
            /\ models[m].state = "DIRTY"
            /\ CallsOn(Now, "setDirty", m) # {}
            /\ FiredFor(Now, "onModelDirty", r) # {}
            /\ mapResourceToUndoDirtyFromExternalDelete[r] # NoUndo

\* --------------------------------------------------------------- C10
\* C10: right after an external delete has forced the model of R dirty, an
\* external add of R calls the undo once, leaves the model SAVED as it was
\* before the delete and clears the undo of R; a second external add of R
\* then calls nothing, fires nothing and changes nothing.
C10_AddUndoesForcedDirty ==
    \A r \in Resources, a \in ResourceLists(Files) :
        LET m == Registered(r)
            T == onFileChanges(St, a, <<>>)
            U == onFileChanges(After(T), a, <<>>)
        IN  (/\ lastOp = "onFileChanges"
             /\ ~disposeOnExternalFileDelete
             /\ m # NoModel
             /\ CallsOn(Now, "setDirty", m) # {}
             /\ Among(r, a)) =>
                /\ mapResourceToUndoDirtyFromExternalDelete[r]
                       = [model |-> m, state |-> "SAVED"]
                /\ Cardinality(Calls(T, "undo")) = 1
                /\ Cardinality(CallsOn(T, "undo", m)) = 1
                /\ T.models[m].state = "SAVED"
                /\ ~isDirty(T, m)
                /\ T.undo[r] = NoUndo
                /\ T.fired = <<>>
                /\ get(T, r) = m
                /\ U = After(T)

\* an external add has undone the dirty state an external delete forced
C10_Witness ==
    \E r \in Resources :
        LET m == Registered(r)
        IN  /\ lastOp = "onFileChanges"
            /\ ~disposeOnExternalFileDelete
            /\ m # NoModel
            /\ Cardinality(CallsOn(Now, "undo", m)) = 1
            /\ models[m].state = "SAVED"
            /\ mapResourceToUndoDirtyFromExternalDelete[r] = NoUndo
            /\ onFileChanges(St, <<r>>, <<>>) = St

\* --------------------------------------------------------------- C11
\* the model tells the state change of a user edit, a save or a revert
modelChanges(S, m, change) ==
    emitStateChange([S EXCEPT !.models[m].state = StateAfter(@, change)], m, change)

\* C11: an external add never undoes a dirty flag the user set by editing.
\* After a forced dirty and a save the model is SAVED and the undo of R is
\* still recorded; when the user then edits the model, its DIRTY state is the
\* user's, and an external add of R must call no undo and leave it DIRTY.
C11_UserDirtyNotUndone ==
    \A r \in Resources, a \in ResourceLists(Files) :
        LET m == Registered(r)
            edited == After(modelChanges(St, m, "DIRTY"))
            T == onFileChanges(edited, a, <<>>)
        IN  (/\ ~disposeOnExternalFileDelete
             /\ m # NoModel
             /\ models[m].state = "SAVED"
             /\ models[m].loaded
             /\ ~models[m].disposed
             /\ Pending(r) = NoModel
             /\ mapResourceToUndoDirtyFromExternalDelete[r].model \in {NoModel, m}) =>
                /\ Calls(T, "undo") = {}
                /\ T.models[m].state = "DIRTY"

\* --------------------------------------------------------------- C12
\* the model is eligible for disposal, spelled out on the fields
Eligible(m) ==
    /\ m # NoModel
    /\ ~models[m].disposed
    /\ Pending(models[m].resource) = NoModel
    /\ models[m].state = "SAVED"
    /\ ~(models[m].loaded /\ models[m].resource \in editors)

\* C12: a MOVE or DELETE file operation on R disposes the model of R when it
\* is eligible, whatever the setting is, and never forces it dirty; it does
\* nothing when the model is not eligible, and an operation of another kind
\* changes nothing at all.
C12_FileOperationDisposes ==
    \A f \in BOOLEAN, o \in FileOperations, r \in Resources :
        LET m == Registered(r)
            S == [St EXCEPT !.flag = f]
            T == onFileOperation(S, o, r)
        IN  IF o \in {"MOVE", "DELETE"} /\ Eligible(m)
            THEN /\ T.models[m].disposed
                 /\ T.models[m].state = "SAVED"
                 /\ Cardinality(CallsOn(T, "dispose", m)) = 1
                 /\ Calls(T, "setDirty") = {}
                 /\ get(T, r) = NoModel
                 /\ Cardinality(FiredFor(T, "onModelDisposed", r)) = 1
                 /\ T.undo[r] \in {NoUndo, St.undo[r]}
                 /\ T.flag = f
            ELSE T = S

\* a file operation has disposed a model although the setting is off
C12_Witness ==
    \E m \in Created :
        /\ lastOp = "onFileOperation"
        /\ ~disposeOnExternalFileDelete
        /\ models[m].disposed
        /\ CallsOn(Now, "dispose", m) # {}
        /\ Registered(models[m].resource) = NoModel
        /\ FiredFor(Now, "onModelDisposed", models[m].resource) # {}

\* --------------------------------------------------------------- C13
\* C13 as stated: after the sweep every registered model is open in an
\* editor, and the models open in an editor are as they were.
C13_SweepDisposesAllUnused ==
    \A e \in SUBSET Resources :
        LET T == disposeUnusedModels([St EXCEPT !.editors = e])
        IN  \A r \in Resources :
                LET m == Registered(r)
                IN  m # NoModel =>
                        IF r \in e
                        THEN T.models[m] = models[m] /\ get(T, r) = m
                        ELSE T.models[m].disposed /\ get(T, r) = NoModel

\* C13, amended: the sweep disposes every registered model that is not open
\* in an editor and is eligible (SAVED, not disposed, no load pending), and
\* leaves every other registered model as it was: the ones open in an editor
\* and the ones that are dirty, in error or loading.
C13_SweepDisposesEligibleUnused ==
    \A e \in SUBSET Resources :
        LET S == [St EXCEPT !.editors = e]
            T == disposeUnusedModels(S)
        IN  \A r \in Resources :
                LET m == Registered(r)
                IN  m # NoModel =>
                        IF /\ r \notin e
                           /\ models[m].state = "SAVED"
                           /\ ~models[m].disposed
                           /\ Pending(models[m].resource) = NoModel
                        THEN /\ T.models[m].disposed
                             /\ Cardinality(CallsOn(T, "dispose", m)) = 1
                             /\ get(T, r) = NoModel
                             /\ Cardinality(FiredFor(T, "onModelDisposed", r)) = 1
                        ELSE /\ T.models[m] = models[m]
                             /\ get(T, r) = m
                             /\ CallsOn(T, "dispose", m) = {}

\* the editors have changed and the sweep has disposed the model of the
\* resource that is not open and kept the model of the one that is
C13_Witness ==
    \E m \in Created, q \in Resources :
        /\ lastOp = "onEditorsChanged"
        /\ models[m].disposed
        /\ models[m].resource \notin editors
        /\ CallsOn(Now, "dispose", m) # {}
        /\ Registered(models[m].resource) = NoModel
        /\ FiredFor(Now, "onModelDisposed", models[m].resource) # {}
        /\ q \in editors
        /\ Registered(q) # NoModel
        /\ ~models[Registered(q)].disposed

\* --------------------------------------------------------------- C14
\* what the setting makes of the flag
ExpectedFlag(configuration) ==
    CASE configuration = "true" -> TRUE
      [] configuration = "false" -> FALSE
      [] OTHER -> TRUE

\* C14: at construction and after every configuration update the flag is
\* the boolean closeOnExternalFileDelete, and true when the setting or a
\* section around it is absent or the value is not a boolean, whatever the
\* flag was before; the update changes nothing else.
C14_FlagFollowsConfiguration ==
    /\ \A c \in Configurations :
           /\ InitialFlag(c) = ExpectedFlag(c)
           /\ onConfigurationUpdated(St, c) = [St EXCEPT !.flag = ExpectedFlag(c)]
    /\ lastOp = "constructor" =>
           \E c \in Configurations : disposeOnExternalFileDelete = ExpectedFlag(c)

\* a configuration update has turned the flag from false back to true, and
\* an update without the setting would do the same from false
C14_Witness ==
    /\ lastOp = "onConfigurationUpdated"
    /\ disposeOnExternalFileDelete
    /\ onConfigurationUpdated([St EXCEPT !.flag = FALSE], "absent").flag

\* --------------------------------------------------------------- C17
\* C17: get(R) is the model registered for R: the model add stored, nothing
\* after remove. A loadOrCreate of a resource without a model leaves get(R)
\* nothing and the registry as it was, and get(R) is nothing in the state
\* after it, while that first load is in flight.
C17_GetReadsRegistry ==
    /\ \A r \in Resources :
           /\ get(remove(St, r), r) = NoModel
           /\ \A m \in Created :
                  (models[m].resource = r /\ ~models[m].disposed) =>
                      get(add(St, r, m), r) = m
    /\ \A r \in Resources, in \in Inputs :
           LET T == loadOrCreate(St, r, in[1], in[2])
           IN  (/\ Registered(r) = NoModel
                /\ Pending(r) = NoModel
                /\ Len(models) < MaxModels) =>
                   /\ get(T, r) = NoModel
                   /\ T.map = mapResourceToModel
                   /\ T.pend[r] = Len(models) + 1
                   /\ T.fired = <<>>
    /\ lastOp = "loadOrCreate" =>
           \A i \in Calls(Now, "createInstance") :
               /\ Registered(models[calls[i].model].resource) = NoModel
               /\ Pending(models[calls[i].model].resource) = calls[i].model

\* the first load of a resource is in flight and get finds no model
C17_Witness ==
    \E r \in Resources :
        /\ lastOp = "loadOrCreate"
        /\ Calls(Now, "createInstance") # {}
        /\ Pending(r) # NoModel
        /\ ~models[Pending(r)].loaded
        /\ models[Pending(r)].loading = 1
        /\ Registered(r) = NoModel

\* --------------------------------------------------------------- C18
\* C18: with a model registered for R and no load pending, loadOrCreate(R)
\* without refresh resolves with that model and calls no load; with refresh
\* it calls load on that model once, creates no model and installs no state
\* change or content change listener.
C18_CachedOrReloaded ==
    \A r \in Resources, encoding \in Encodings \cup {NoEncoding} :
        LET m == Registered(r)
            T == loadOrCreate(St, r, encoding, FALSE)
            U == loadOrCreate(St, r, encoding, TRUE)
        IN  (m # NoModel /\ Pending(r) = NoModel) =>
                /\ T.out.then = Resolved(m)
                /\ T.out.raw = Resolved(m)
                /\ Calls(T, "load") = {}
                /\ Calls(T, "createInstance") = {}
                /\ Len(T.models) = Len(models)
                /\ get(T, r) = m
                /\ T.pend[r] = NoModel
                /\ Cardinality(Calls(U, "load")) = 1
                /\ Cardinality(CallsOn(U, "load", m)) = 1
                /\ Calls(U, "createInstance") = {}
                /\ Len(U.models) = Len(models)
                /\ U.pend[r] = m
                /\ U.out.then = Unsettled
                /\ U.sl = mapResourceToStateChangeListener
                /\ U.cl = mapResourceToModelContentChangeListener
                /\ \A k \in Created :
                       /\ U.models[k].onDidStateChange = models[k].onDidStateChange
                       /\ U.models[k].onDidContentChange = models[k].onDidContentChange
                /\ get(U, r) = m

\* a refresh of a registered model: one load of the same instance in flight
C18_Witness ==
    \E r \in Resources :
        LET m == Registered(r)
        IN  /\ lastOp = "loadOrCreate"
            /\ m # NoModel
            /\ Pending(r) = m
            /\ models[m].loaded
            /\ Cardinality(CallsOn(Now, "load", m)) = 1
            /\ Calls(Now, "createInstance") = {}

\* --------------------------------------------------------------- C19
\* C19: add(R, M) with M the model registered for R changes nothing, and a
\* disposal of M after it fires onModelDisposed(R) once and removes R.
C19_AddKnownModel ==
    \A r \in Resources :
        LET m == Registered(r)
            T == add(St, r, m)
            D == modelDispose(After(T), m)
        IN  m # NoModel =>
                /\ T = St
                /\ ~models[m].disposed =>
                       /\ Cardinality(Fired(D, "onModelDisposed")) = 1
                       /\ Cardinality(FiredFor(D, "onModelDisposed", r)) = 1
                       /\ get(D, r) = NoModel

\* a registered model with its one dispose listener, added once more
C19_Witness ==
    \E r \in Resources :
        LET m == Registered(r)
        IN  /\ lastOp = "add"
            /\ m # NoModel
            /\ ~models[m].disposed
            /\ mapResourceToDisposeListener[r] = m
            /\ add(St, r, m) = St
            /\ Cardinality(FiredFor(modelDispose(St, m), "onModelDisposed", r)) = 1

\* --------------------------------------------------------------- C20
\* C20: add(R, M) with M not the registered model M0 makes get(R) M and
\* leaves one dispose listener for R, on M: the disposal of M removes R and
\* fires onModelDisposed(R) once, the disposal of M0 removes nothing and
\* fires nothing.
C20_AddReplacesModel ==
    \A r \in Resources, m \in Created :
        LET m0 == Registered(r)
            T == add(St, r, m)
            D == modelDispose(After(T), m)
            D0 == modelDispose(After(T), m0)
            listener == [kind |-> "remove", resource |-> r]
        IN  (m # m0 /\ models[m].resource = r /\ ~models[m].disposed) =>
                /\ get(T, r) = m
                /\ T.dl[r] = m
                /\ \A k \in Created : listener \in T.models[k].onDispose <=> k = m
                /\ get(D, r) = NoModel
                /\ Cardinality(FiredFor(D, "onModelDisposed", r)) = 1
                /\ (m0 # NoModel /\ ~models[m0].disposed) =>
                       /\ get(D0, r) = m
                       /\ Fired(D0, "onModelDisposed") = {}
                       /\ D0.dl[r] = m

\* a model has replaced another model of the same resource that is alive
C20_Witness ==
    \E r \in Resources, m0 \in Created :
        LET m == Registered(r)
        IN  /\ lastOp = "add"
            /\ m # NoModel /\ m # m0
            /\ models[m0].resource = r
            /\ models[m0].loaded
            /\ ~models[m0].disposed
            /\ ~models[m].disposed
            /\ mapResourceToDisposeListener[r] = m
            /\ [kind |-> "remove", resource |-> r] \notin models[m0].onDispose
            /\ get(modelDispose(St, m0), r) = m

\* --------------------------------------------------------------- C15
SingleEvents ==
    {"onModelDisposed", "onModelContentChanged", "onModelDirty",
     "onModelSaveError", "onModelSaved", "onModelReverted",
     "onModelEncodingChanged"}

\* the event ev fired once for each resource of rs, in that order
RECURSIVE fireAll(_, _, _)
fireAll(S, ev, rs) ==
    IF rs = <<>> THEN S
    ELSE fireAll(fire(S, ev, Head(rs), get(S, Head(rs))), ev, Tail(rs))

\* three firings in a row
Firings == [1..3 -> Resources]

\* C15: a batched stream holds the change events of its own event since its
\* last emission, in firing order, with its timer running; three more
\* firings before the timer runs out add those three in order and emit
\* nothing, and when the timer runs out the stream emits once, the whole
\* list, and holds nothing. Firings of the other events never reach it.
C15_OneBatchInOrder ==
    /\ \A i \in DOMAIN streams :
           LET ev == streams[i].event
               held_ == streams[i].output
           IN  /\ ev \in BatchedKinds
               /\ streams[i].handle <=> held_ # <<>>
               /\ \A j \in DOMAIN held_ : held_[j].event = ev
               /\ \A rs \in Firings :
                      LET F == fireAll(St, ev, rs)
                          T == timeout(F, i)
                      IN  /\ Len(F.fired) = 3
                          /\ F.emitted = <<>>
                          /\ F.streams[i].handle
                          /\ F.streams[i].output = held_ \o F.fired
                          /\ T.emitted = <<[stream |-> i,
                                            events |-> held_ \o F.fired]>>
                          /\ T.streams[i] = NewStream(ev)
               /\ \A other \in SingleEvents \ {ev}, r \in Resources :
                      fire(St, other, r, NoModel).streams[i] = streams[i]
    /\ onModelsEvents.onModelsDirtyEvent # NoStream =>
           streams[onModelsEvents.onModelsDirtyEvent].event = "onModelDirty"
    /\ onModelsEvents.onModelsSaveError # NoStream =>
           streams[onModelsEvents.onModelsSaveError].event = "onModelSaveError"
    /\ onModelsEvents.onModelsSaved # NoStream =>
           streams[onModelsEvents.onModelsSaved].event = "onModelSaved"
    /\ onModelsEvents.onModelsReverted # NoStream =>
           streams[onModelsEvents.onModelsReverted].event = "onModelReverted"
    /\ lastOp = "timeout" =>
           /\ Len(emitted) = 1
           /\ emitted[1].events # <<>>
           /\ streams[emitted[1].stream].output = <<>>
           /\ \A j \in DOMAIN emitted[1].events :
                  emitted[1].events[j].event = streams[emitted[1].stream].event

\* onModelsDirty has emitted one list of three DIRTY events, not all alike
C15_Witness ==
    /\ lastOp = "timeout"
    /\ Len(emitted) = 1
    /\ emitted[1].stream = onModelsEvents.onModelsDirtyEvent
    /\ Len(emitted[1].events) = 3
    /\ emitted[1].events[1] # emitted[1].events[2]
    /\ \A j \in 1..3 : emitted[1].events[j].event = "onModelDirty"

\* --------------------------------------------------------------- C16
Getters == {"onModelsDirty", "onModelsSaveError", "onModelsSaved", "onModelsReverted"}

\* the stream the getter g has cached
cached(B, g) ==
    CASE g = "onModelsDirty" -> B.onModelsDirtyEvent
      [] g = "onModelsSaveError" -> B.onModelsSaveError
      [] g = "onModelsSaved" -> B.onModelsSaved
      [] g = "onModelsReverted" -> B.onModelsReverted

\* a read of the getter g
access(S, g) ==
    CASE g = "onModelsDirty" -> onModelsDirty(S)
      [] g = "onModelsSaveError" -> onModelsSaveError(S)
      [] g = "onModelsSaved" -> onModelsSaved(S)
      [] g = "onModelsReverted" -> onModelsReverted(S)

\* the event the stream of the getter g batches
Underlying(g) ==
    CASE g = "onModelsDirty" -> "onModelDirty"
      [] g = "onModelsSaveError" -> "onModelSaveError"
      [] g = "onModelsSaved" -> "onModelSaved"
      [] g = "onModelsReverted" -> "onModelReverted"

\* C16: no stream exists before a getter is read; the first read of a getter
\* creates the stream of its own event and of no other, every later read
\* returns that same stream and creates nothing, so that there is at most
\* one stream per event.
C16_StreamsCreatedOnce ==
    /\ lastOp = "constructor" => streams = <<>>
    /\ \A i \in DOMAIN streams :
           Cardinality({g \in Getters : cached(onModelsEvents, g) = i}) = 1
    /\ \A g \in Getters :
           LET id == cached(onModelsEvents, g)
               T == access(St, g)
               U == access(After(T), g)
           IN  /\ id # NoStream =>
                      id \in DOMAIN streams /\ streams[id].event = Underlying(g)
               /\ T.got # NoStream
               /\ cached(T.batched, g) = T.got
               /\ \A h \in Getters \ {g} :
                      cached(T.batched, h) = cached(onModelsEvents, h)
               /\ IF id # NoStream
                  THEN T.got = id /\ T.streams = streams
                  ELSE /\ T.got = Len(streams) + 1
                       /\ T.streams = Append(streams, NewStream(Underlying(g)))
               /\ U.got = T.got
               /\ U.streams = T.streams
               /\ U.batched = T.batched
    /\ lastOp \in Getters => got = cached(onModelsEvents, lastOp)

\* all four streams exist, onModelsSaved was read last and the next read
\* returns the same stream
C16_Witness ==
    /\ lastOp = "onModelsSaved"
    /\ Len(streams) = 4
    /\ got = onModelsEvents.onModelsSaved
    /\ got # NoStream
    /\ got # onModelsEvents.onModelsDirtyEvent
    /\ onModelsSaved(St).got = got
    /\ onModelsSaved(St).streams = streams

\* --------------------------------------------------------------- C21
\* the listeners the manager holds for r: none
NoListeners(S, r) ==
    S.dl[r] = NoModel /\ S.sl[r] = NoModel /\ S.cl[r] = NoModel

\* the subscription of the dispose listener add() installs for r
RemoveListener(r) == [kind |-> "remove", resource |-> r]

\* C21: remove(R) deletes the registry entry of R and releases and deletes
\* the dispose, state change and content change listeners held for R; the
\* entries and the listeners of every other resource, the pending loads and
\* the undos are as they were; with no entry and no listener held for R it
\* changes nothing.
C21_RemoveReleasesEntryAndListeners ==
    \A r \in Resources :
        LET T == remove(St, r)
            d == mapResourceToDisposeListener[r]
            s == mapResourceToStateChangeListener[r]
            c == mapResourceToModelContentChangeListener[r]
        IN  /\ get(T, r) = NoModel
            /\ mapKeys(T.map) = mapKeys(mapResourceToModel) \ {r}
            /\ NoListeners(T, r)
            /\ d # NoModel => RemoveListener(r) \notin T.models[d].onDispose
            /\ s # NoModel => ~T.models[s].onDidStateChange
            /\ c # NoModel => ~T.models[c].onDidContentChange
            /\ \A q \in Resources \ {r} :
                   /\ get(T, q) = Registered(q)
                   /\ T.dl[q] = mapResourceToDisposeListener[q]
                   /\ T.sl[q] = mapResourceToStateChangeListener[q]
                   /\ T.cl[q] = mapResourceToModelContentChangeListener[q]
            /\ \A k \in Created :
                   /\ T.models[k].onDispose \ {RemoveListener(r)}
                          = models[k].onDispose \ {RemoveListener(r)}
                   /\ models[k].resource # r => T.models[k] = models[k]
                   /\ T.models[k].disposed = models[k].disposed
                   /\ T.models[k].state = models[k].state
            /\ T.pend = mapResourceToPendingModelLoaders
            /\ T.undo = mapResourceToUndoDirtyFromExternalDelete
            /\ T.fired = <<>> /\ T.calls = <<>>
            /\ (Registered(r) = NoModel /\ NoListeners(St, r)) => T = St

\* remove has taken the entry and the three listeners of a model that is
\* alive, and the model of the other resource is registered and listened to
C21_Witness ==
    \E m \in Created, q \in Resources :
        LET r == models[m].resource
        IN  /\ lastOp = "remove"
            /\ ~models[m].disposed
            /\ models[m].loaded
            /\ Registered(r) = NoModel
            /\ NoListeners(St, r)
            /\ models[m].onDispose = {}
            /\ ~models[m].onDidStateChange
            /\ q # r
            /\ Registered(q) # NoModel
            /\ mapResourceToDisposeListener[q] = Registered(q)
            /\ mapResourceToStateChangeListener[q] = Registered(q)
            /\ models[Registered(q)].onDidStateChange

\* --------------------------------------------------------------- C22
\* the model tells a change of its content
modelContentChanges(S, m) ==
    IF S.models[m].onDidContentChange THEN contentChangeListener(S, m) ELSE S

\* C22: after clear() get(R) is nothing for every resource, getAll() is
\* empty, the three listener maps are empty and every listener they held is
\* released: no model has a listener of the manager for its disposal, its
\* state changes or its content changes, so that a disposal after it fires
\* no onModelDisposed and a state change or a content change after it
\* fires nothing.
C22_ClearEmptiesRegistry ==
    LET T == clear(St)
    IN  /\ getAll(T) = <<>>
        /\ \A r \in Resources : get(T, r) = NoModel /\ NoListeners(T, r)
        /\ \A k \in Created :
               /\ \A r \in Resources : RemoveListener(r) \notin T.models[k].onDispose
               /\ ~T.models[k].onDidStateChange
               /\ ~T.models[k].onDidContentChange
               /\ ~models[k].disposed =>
                      /\ modelDispose(After(T), k).fired = <<>>
                      /\ modelContentChanges(After(T), k).fired = <<>>
                      /\ \A ch \in StateChanges :
                             modelChanges(After(T), k, ch).fired = <<>>
        /\ T.fired = <<>> /\ T.calls = <<>>
        /\ lastOp = "clear" =>
               /\ mapResourceToModel = <<>>
               /\ \A r \in Resources : NoListeners(St, r)

\* clear has emptied a registry that held the models of both resources, one
\* of them listened to for its state changes
C22_Witness ==
    \E m \in Created, k \in Created :
        /\ lastOp = "clear"
        /\ mapResourceToModel = <<>>
        /\ models[m].resource # models[k].resource
        /\ ~models[m].disposed /\ models[m].loaded
        /\ ~models[k].disposed /\ models[k].loaded
        /\ models[m].onDispose = {} /\ models[k].onDispose = {}
        /\ ~models[m].onDidStateChange /\ ~models[k].onDidStateChange
        /\ \A r \in Resources : NoListeners(St, r)
        /\ \E r \in Resources : mapResourceToPendingModelLoaders[r] # NoModel

\* --------------------------------------------------------------- C23
\* C23: the shutdown releases every listener the manager holds: after
\* dispose() the listeners on the file service, the configuration service and
\* the editor group service are unbound, and no dispose, state change or
\* content change listener is held for any resource or subscribed on any
\* model.
C23_ShutdownReleasesAllListeners ==
    LET T == dispose(St)
    IN  /\ ~T.bound
        /\ \A r \in Resources : NoListeners(T, r)
        /\ \A k \in Created :
               /\ \A r \in Resources : RemoveListener(r) \notin T.models[k].onDispose
               /\ ~T.models[k].onDidStateChange
               /\ ~T.models[k].onDidContentChange

\* --------------------------------------------------------------- C24
\* C24: in every reachable state a resource has a model in the registry
\* exactly when a dispose listener is held for it; the listener held is the
\* one on the registered model, it is subscribed on that model while the
\* model is alive, and on no other model.
C24_EntryIffDisposeListener ==
    \A r \in Resources :
        LET m == Registered(r)
        IN  /\ mapHas(mapResourceToModel, r) <=> mapResourceToDisposeListener[r] # NoModel
            /\ mapResourceToDisposeListener[r] = m
            /\ m # NoModel => models[m].resource = r
            /\ \A k \in Created :
                   RemoveListener(r) \in models[k].onDispose
                       <=> (k = m /\ ~models[k].disposed)

\* a model is registered with its dispose listener after the model that was
\* registered before it has been disposed and removed
C24_Witness ==
    \E r \in Resources, k \in Created :
        LET m == Registered(r)
        IN  /\ m # NoModel /\ m # k
            /\ ~models[m].disposed
            /\ mapResourceToDisposeListener[r] = m
            /\ RemoveListener(r) \in models[m].onDispose
            /\ models[k].resource = r
            /\ models[k].disposed
            /\ lastOp = "loadSettles"

\* --------------------------------------------------------------- C25
\* the models of r, the undo of r and the entry of r are in T as they are
\* in S, and T has called nothing
Untouched(S, T, r) ==
    /\ \A k \in DOMAIN S.models : S.models[k].resource = r => T.models[k] = S.models[k]
    /\ T.undo[r] = S.undo[r]
    /\ get(T, r) = get(S, r)
    /\ T.calls = <<>>
    /\ T.fired = <<>>

\* C25: while a load of R is pending, no file operation event, no file
\* change event and no sweep of the editors disposes, forces dirty or
\* undirties the model of R: the models of R, the undo of R and the entry of
\* R stay as they are, whatever the setting is and whatever state the
\* registered model reports.
C25_PendingModelLeftAlone ==
    \A r \in Resources, f \in BOOLEAN, st \in ModelStates :
        LET m == Registered(r)
            S0 == [St EXCEPT !.flag = f]
            S == IF m = NoModel THEN S0 ELSE [S0 EXCEPT !.models[m].state = st]
        IN  Pending(r) # NoModel =>
                /\ \A o \in FileOperations : Untouched(S, onFileOperation(S, o, r), r)
                /\ \A a \in ResourceLists(Files), d \in ResourceLists(Files) :
                       Untouched(S, onFileChanges(S, a, d), r)
                /\ \A e \in SUBSET Resources :
                       Untouched([S EXCEPT !.editors = e],
                                 disposeUnusedModels([S EXCEPT !.editors = e]), r)

\* a registered model is being reloaded, and only its pending load keeps an
\* external delete, a file operation and the sweep from disposing it and,
\* with the setting off, the delete from forcing it dirty
C25_Witness ==
    \E r \in Resources :
        LET m == Registered(r)
            S == [St EXCEPT !.pend[r] = NoModel]
        IN  /\ m # NoModel
            /\ Pending(r) = m
            /\ lastOp = "loadOrCreate"
            /\ models[m].state = "SAVED"
            /\ r \notin editors
            /\ get(onFileChanges([St EXCEPT !.flag = TRUE], <<>>, <<r>>), r) = m
            /\ get(onFileOperation(St, "DELETE", r), r) = m
            /\ get(disposeUnusedModels(St), r) = m
            /\ onFileChanges([St EXCEPT !.flag = FALSE], <<>>, <<r>>).models[m].state = "SAVED"
            /\ get(onFileChanges([S EXCEPT !.flag = TRUE], <<>>, <<r>>), r) = NoModel
            /\ get(onFileOperation(S, "DELETE", r), r) = NoModel
            /\ get(disposeUnusedModels(S), r) = NoModel
            /\ onFileChanges([S EXCEPT !.flag = FALSE], <<>>, <<r>>).models[m].state = "DIRTY"

\* --------------------------------------------------------------- C26
\* every state change and every content change the model m tells in S is
\* fired once, on the event of its kind, with m
Republished(S, m) ==
    /\ \A ch \in StateChanges :
           LET F == modelChanges(S, m, ch).fired
           IN  /\ Len(F) = 1
               /\ F[1].event = StateChangeEvent(ch)
               /\ F[1].model = m
    /\ LET F == modelContentChanges(S, m).fired
       IN  /\ Len(F) = 1
           /\ F[1].event = "onModelContentChanged"
           /\ F[1].model = m

\* the first load of the model m is in flight
FirstLoadInFlight(m) ==
    /\ models[m].loading > 0
    /\ ~models[m].loaded
    /\ ~models[m].disposed
    /\ Pending(models[m].resource) = m

EventOf ==
    [DIRTY |-> "onModelDirty", SAVE_ERROR |-> "onModelSaveError",
     SAVED |-> "onModelSaved", REVERTED |-> "onModelReverted",
     ENCODING |-> "onModelEncodingChanged"]

C28_FailedPreconditionsNoOp ==
    \A r \in Resources :
        LET m == Registered(r)
            S == [St EXCEPT !.flag = FALSE]
        IN  /\ (m = NoModel \/ models[m].disposed \/ models[m].state # "SAVED") =>
                   /\ dirtyModelIfPossible(S, r) = S
                   /\ onFileChanges(S, <<>>, <<r>>) = S
            /\ (\/ m = NoModel
                \/ models[m].disposed
                \/ models[m].state # "DIRTY"
                \/ mapResourceToUndoDirtyFromExternalDelete[r] = NoUndo) =>
                   /\ undirtyModelIfPossible(S, r) = S
                   /\ onFileChanges(S, <<r>>, <<>>) = S

\* the setting is off and the user has edited a registered model for which
\* no undo is recorded: an external delete and an external add of its
\* resource change nothing, and the delete would force the model dirty if it
\* were SAVED
C28_Witness ==
    \E r \in Resources :
        LET m == Registered(r)
        IN  /\ ~disposeOnExternalFileDelete
            /\ lastOp = "onDidStateChange"
            /\ m # NoModel
            /\ ~models[m].disposed
            /\ Pending(r) = NoModel
            /\ models[m].state = "DIRTY"
            /\ mapResourceToUndoDirtyFromExternalDelete[r] = NoUndo
            /\ onFileChanges(St, <<r>>, <<>>) = St
            /\ onFileChanges(St, <<>>, <<r>>) = St
            /\ onFileChanges([St EXCEPT !.models[m].state = "SAVED"], <<>>, <<r>>)
                   .undo[r] # NoUndo

\* --------------------------------------------------------------- C29
\* C29: a state change or content change listener is held for R only while
\* R has a registered model or a pending load, so that none is held after a
\* failed first load of R, and a loadOrCreate that creates a model for R
\* finds no listener held for R that it would overwrite.
C29_ListenersOnlyWithEntryOrLoad ==
    \A r \in Resources :
        /\ (\/ mapResourceToStateChangeListener[r] # NoModel
            \/ mapResourceToModelContentChangeListener[r] # NoModel) =>
               (Registered(r) # NoModel \/ Pending(r) # NoModel)
        /\ (Registered(r) = NoModel /\ Pending(r) = NoModel) =>
               \A in \in Inputs :
                   LET T == loadOrCreate(St, r, in[1], in[2])
                   IN  /\ T.sl[r] # NoModel => mapResourceToStateChangeListener[r] = NoModel
                       /\ T.cl[r] # NoModel =>
                              mapResourceToModelContentChangeListener[r] = NoModel

\* --------------------------------------------------------------- C30
\* C30: when the load that loadOrCreate(R, refresh) started on the
\* registered model fails, that model is disposed, its entry is removed from
\* the registry, onModelDisposed(R) fires once, the pending load is cleared
\* and the promise of the caller is rejected with the error: get(R) is
\* nothing although the model had been loaded before.
C30_FailedRefreshDisposesRegistered ==
    \A m \in Created, e \in Errors :
        LET r == models[m].resource
            T == loadSettles(St, m, FALSE, e, FALSE)
        IN  (/\ models[m].loading > 0
             /\ Registered(r) = m
             /\ ~models[m].disposed) =>
                /\ Pending(r) = m
                /\ T.models[m].disposed
                /\ Cardinality(CallsOn(T, "dispose", m)) = 1
                /\ get(T, r) = NoModel
                /\ ~mapHas(T.map, r)
                /\ T.dl[r] = NoModel
                /\ Cardinality(Fired(T, "onModelDisposed")) = 1
                /\ Cardinality(FiredFor(T, "onModelDisposed", r)) = 1
                /\ T.pend[r] = NoModel
                /\ T.out.then = Rejected(e)
                /\ T.out.raw = Rejected(e)

\* the refresh of a model that was loaded and registered has failed: the
\* model is disposed and its resource has no model
C30_Witness ==
    /\ lastOp = "loadSettles"
    /\ outcome.then.status = "rejected"
    /\ outcome.model # NoModel
    /\ models[outcome.model].disposed
    /\ CallsOn(Now, "dispose", outcome.model) # {}
    /\ FiredFor(Now, "onModelDisposed", outcome.resource) # {}
    /\ Registered(outcome.resource) = NoModel
    /\ Pending(outcome.resource) = NoModel
    /\ mapResourceToDisposeListener[outcome.resource] = NoModel

\* --------------------------------------------------------------- C31
\* C31: in every reachable state the model get(R) returns is not disposed,
\* also after a model was disposed while a load of it was in flight and that
\* load has resolved.
C31_GetNeverDisposed ==
    \A r \in Resources :
        Registered(r) # NoModel => ~models[Registered(r)].disposed

\* --------------------------------------------------------------- C32
\* S has fired onModelDirty once, with the model m of r, and nothing else
OneDirtyEvent(S, r, m) ==
    /\ Len(S.fired) = 1
    /\ S.fired[1].event = "onModelDirty"
    /\ S.fired[1].resource = r
    /\ S.fired[1].model = m

\* C32: a loadOrCreate(R) that finds a registered model that reports dirty
\* and no load pending runs its success continuation in the call and fires
\* one onModelDirty, although no load was made: three calls in a row fire
\* three DIRTY events. A loadOrCreate(R) that finds a load pending fires
\* nothing, and the load that resolves fires one DIRTY event for all its
\* callers.
C32_DirtyEventPerContinuation ==
    \A r \in Resources, encoding \in Encodings \cup {NoEncoding} :
        LET m == Registered(r)
            T1 == loadOrCreate(St, r, encoding, FALSE)
            T2 == loadOrCreate(After(T1), r, encoding, FALSE)
            T3 == loadOrCreate(After(T2), r, encoding, FALSE)
        IN  /\ (m # NoModel /\ Pending(r) = NoModel /\ isDirty(St, m)) =>
                   /\ OneDirtyEvent(T1, r, m)
                   /\ OneDirtyEvent(T2, r, m)
                   /\ OneDirtyEvent(T3, r, m)
                   /\ Calls(T1, "load") = {} /\ Calls(T2, "load") = {}
                   /\ T1.out.then = Resolved(m)
                   /\ After(T1) = After(St) /\ After(T3) = After(St)
            /\ Pending(r) # NoModel =>
                   /\ \A refresh \in BOOLEAN :
                          loadOrCreate(St, r, encoding, refresh).fired = <<>>
                   /\ \A backup \in BOOLEAN :
                          LET L == loadSettles(St, Pending(r), TRUE, "none", backup)
                          IN  Len(L.fired) = IF isDirty(L, Pending(r)) THEN 1 ELSE 0

\* loadOrCreate has handed out the registered dirty model without a load and
\* has fired onModelDirty for it
C32_Witness ==
    \E r \in Resources :
        LET m == Registered(r)
        IN  /\ lastOp = "loadOrCreate"
            /\ m # NoModel
            /\ Pending(r) = NoModel
            /\ models[m].state = "DIRTY"
            /\ OneDirtyEvent(Now, r, m)
            /\ calls = <<>>
            /\ outcome.then = Resolved(m)

\* --------------------------------------------------------------- C33
\* C33: the success continuation registers the model, then fires the DIRTY
\* event, then clears the pending load: a listener of the DIRTY event finds
\* get(R) to be the model and the pending load of R still set, and the
\* pending load is cleared when the continuation returns.
C33_RegisterFireClear ==
    /\ \A m \in Created, backup \in BOOLEAN :
           LET r == models[m].resource
               T == loadSettles(St, m, TRUE, "none", backup)
           IN  (models[m].loading > 0 /\ isDirty(T, m)) =>
                   /\ Len(T.fired) = 1
                   /\ T.fired[1].event = "onModelDirty"
                   /\ T.fired[1].registered = m
                   /\ T.fired[1].pending = Pending(r)
                   /\ Pending(r) # NoModel
                   /\ get(T, r) = m
                   /\ T.pend[r] = NoModel
    /\ \A r \in Resources :
           LET m == Registered(r)
               T == loadOrCreate(St, r, NoEncoding, FALSE)
           IN  (m # NoModel /\ Pending(r) = NoModel /\ isDirty(St, m)) =>
                   /\ T.fired[1].registered = m
                   /\ T.fired[1].pending # NoModel
                   /\ T.pend[r] = NoModel
    /\ lastOp \in {"loadSettles", "loadOrCreate"} =>
           \A i \in DOMAIN fired :
               fired[i].event = "onModelDirty" =>
                   /\ fired[i].registered = fired[i].model
                   /\ fired[i].pending # NoModel
                   /\ Pending(fired[i].resource) = NoModel

\* a load has resolved with a dirty model: the DIRTY event was fired with
\* the model registered and the load still pending, and the pending load is
\* gone now
C33_Witness ==
    /\ lastOp = "loadSettles"
    /\ Len(fired) = 1
    /\ fired[1].event = "onModelDirty"
    /\ fired[1].registered = fired[1].model
    /\ fired[1].pending = fired[1].model
    /\ Pending(fired[1].resource) = NoModel
    /\ Registered(fired[1].resource) = fired[1].model

\* --------------------------------------------------------------- C34
\* C34: the disposal of the registered model of R removes the entry and the
\* three listeners of R and then fires onModelDisposed(R), once: a listener
\* of the event finds get(R) to be nothing. A second dispose() of the model
\* fires nothing, and the disposal of a model that is not registered fires
\* no onModelDisposed.
C34_RemovedBeforeDisposedEvent ==
    /\ \A r \in Resources :
           LET m == Registered(r)
               D == modelDispose(St, m)
           IN  (m # NoModel /\ ~models[m].disposed) =>
                   /\ Cardinality(Fired(D, "onModelDisposed")) = 1
                   /\ \A i \in Fired(D, "onModelDisposed") :
                          /\ D.fired[i].resource = r
                          /\ D.fired[i].registered = NoModel
                   /\ get(D, r) = NoModel
                   /\ NoListeners(D, r)
                   /\ modelDispose(After(D), m).fired = <<>>
    /\ \A k \in Created :
           (~models[k].disposed /\ Registered(models[k].resource) # k) =>
               Fired(modelDispose(St, k), "onModelDisposed") = {}
    /\ \A i \in DOMAIN fired :
           fired[i].event = "onModelDisposed" =>
               /\ fired[i].registered = NoModel
               /\ Registered(fired[i].resource) = NoModel
               /\ NoListeners(St, fired[i].resource)
               /\ Cardinality(FiredFor(Now, "onModelDisposed", fired[i].resource)) = 1

\* a file operation has disposed the registered model of a resource: one
\* onModelDisposed, fired when the entry and the listeners were gone
C34_Witness ==
    \E m \in Created :
        /\ lastOp = "onFileOperation"
        /\ models[m].disposed
        /\ CallsOn(Now, "dispose", m) # {}
        /\ Len(fired) = 1
        /\ fired[1].event = "onModelDisposed"
        /\ fired[1].resource = models[m].resource
        /\ fired[1].registered = NoModel
        /\ NoListeners(St, models[m].resource)

\* --------------------------------------------------------------- C35
\* T has disposed no model of S and fired nothing, and the pending loads
\* and the undos are as in S
OnlyUnregisters(S, T) ==
    /\ \A k \in DOMAIN S.models :
           /\ T.models[k].disposed = S.models[k].disposed
           /\ T.models[k].state = S.models[k].state
           /\ T.models[k].loading = S.models[k].loading
    /\ T.calls = <<>>
    /\ T.fired = <<>>
    /\ T.pend = S.pend
    /\ T.undo = S.undo

\* C35: remove(R) and clear() dispose no model, fire no onModelDisposed and
\* leave the pending loads and the undos as they are; a load that is in
\* flight when one of them runs registers its model for R when it resolves.
C35_RemoveAndClearOnlyUnregister ==
    /\ OnlyUnregisters(St, clear(St))
    /\ \A r \in Resources : OnlyUnregisters(St, remove(St, r))
    /\ \A m \in Created, backup \in BOOLEAN :
           LET r == models[m].resource
               afterRemove == loadSettles(After(remove(St, r)), m, TRUE, "none", backup)
               afterClear == loadSettles(After(clear(St)), m, TRUE, "none", backup)
           IN  models[m].loading > 0 =>
                   /\ get(afterRemove, r) = m
                   /\ afterRemove.dl[r] = m
                   /\ afterRemove.pend[r] = NoModel
                   /\ get(afterClear, r) = m
                   /\ afterClear.dl[r] = m
                   /\ afterClear.pend[r] = NoModel
    /\ lastOp \in {"remove", "clear"} => fired = <<>> /\ calls = <<>>

\* clear has run while the registered model was being reloaded: the entry
\* is gone, the model is alive, its load is pending and will register it
C35_Witness ==
    \E r \in Resources :
        LET m == Pending(r)
        IN  /\ lastOp = "clear"
            /\ m # NoModel
            /\ models[m].loaded
            /\ ~models[m].disposed
            /\ Registered(r) = NoModel
            /\ mapResourceToDisposeListener[r] = NoModel
            /\ get(loadSettles(St, m, TRUE, "none", FALSE), r) = m

\* --------------------------------------------------------------- C36
\* the models the calls of S were made on, by name of the call, in order
CallsMade(S) == [i \in DOMAIN S.calls |-> <<S.calls[i].call, S.calls[i].model>>]

\* C36: a file change event handles its added files before its deleted
\* files. With the setting off, an event that reports R as added and as
\* deleted calls the undo of a model of R that was forced dirty and then
\* forces it dirty again, leaving it DIRTY with a newly recorded undo; it
\* forces a SAVED model of R dirty and records its undo.
C36_AddedBeforeDeleted ==
    \A r \in Resources :
        LET m == Registered(r)
            S == [St EXCEPT !.flag = FALSE]
            T == onFileChanges(S, <<r>>, <<r>>)
        IN  (m # NoModel /\ ~models[m].disposed /\ Pending(r) = NoModel) =>
                /\ (/\ models[m].state = "DIRTY"
                    /\ mapResourceToUndoDirtyFromExternalDelete[r]
                           = [model |-> m, state |-> "SAVED"]) =>
                       /\ CallsMade(T) = << <<"undo", m>>, <<"setDirty", m>> >>
                       /\ T.models[m].state = "DIRTY"
                       /\ T.undo[r] = [model |-> m, state |-> "SAVED"]
                       /\ ~T.models[m].disposed
                       /\ get(T, r) = m
                /\ models[m].state = "SAVED" =>
                       /\ CallsMade(T) = << <<"setDirty", m>> >>
                       /\ T.models[m].state = "DIRTY"
                       /\ T.undo[r] = [model |-> m, state |-> "SAVED"]
                       /\ ~T.models[m].disposed
                       /\ get(T, r) = m

\* one file change event has reported a resource added and deleted: the
\* undo of its forced-dirty model was called, the model was forced dirty
\* again and has a recorded undo
C36_Witness ==
    \E r \in Resources :
        LET m == Registered(r)
        IN  /\ lastOp = "onFileChanges"
            /\ ~disposeOnExternalFileDelete
            /\ m # NoModel
            /\ CallsMade(Now) = << <<"undo", m>>, <<"setDirty", m>> >>
            /\ models[m].state = "DIRTY"
            /\ mapResourceToUndoDirtyFromExternalDelete[r]
                   = [model |-> m, state |-> "SAVED"]

\* --------------------------------------------------------------- C37
\* the undo calls an external add of r makes, with the setting off
UndoCallsOnAdd(r) ==
    LET T == onFileChanges([St EXCEPT !.flag = FALSE], <<r>>, <<>>)
    IN  {T.calls[i].model : i \in Calls(T, "undo")}

\* a model is loaded for r, dirty from a backup, and an external add of r
\* arrives with the setting off
LoadedThenAdded(S, r) ==
    LET n == Len(S.models) + 1
        L == loadSettles(After(loadOrCreate(S, r, NoEncoding, FALSE)),
                         n, TRUE, "none", TRUE)
    IN  onFileChanges([After(L) EXCEPT !.flag = FALSE], <<r>>, <<>>)

\* C37: the disposal of the model that was forced dirty for R clears the
\* undo of R, so that a recorded undo of R is the undo of a model of R that
\* is not disposed, no external add calls the undo of a disposed model, and
\* a model that is loaded for R after the disposal, dirty as it may be, has
\* no undo called on an external add.
C37_UndoClearedOnDisposal ==
    \A r \in Resources :
        LET u == mapResourceToUndoDirtyFromExternalDelete[r]
            D == modelDispose(St, u.model)
            A == LoadedThenAdded(After(D), r)
        IN  /\ u # NoUndo =>
                   /\ ~models[u.model].disposed
                   /\ models[u.model].resource = r
                   /\ D.undo[r] = NoUndo
                   /\ (/\ Registered(r) \in {NoModel, u.model}
                       /\ Pending(r) = NoModel
                       /\ Len(models) < MaxModels) =>
                          /\ Calls(A, "undo") = {}
                          /\ A.models[Len(models) + 1].state = "DIRTY"
                          /\ get(A, r) = Len(models) + 1
            /\ \A k \in UndoCallsOnAdd(r) : ~models[k].disposed

\* the setting is off and an external delete has forced the registered model
\* dirty: its undo is recorded, and the disposal of the model clears it
C37_Witness ==
    \E r \in Resources :
        LET m == Registered(r)
        IN  /\ lastOp = "onFileChanges"
            /\ ~disposeOnExternalFileDelete
            /\ m # NoModel
            /\ models[m].state = "DIRTY"
            /\ mapResourceToUndoDirtyFromExternalDelete[r] = [model |-> m, state |-> "SAVED"]
            /\ [kind |-> "clearUndo", resource |-> r] \in models[m].onDispose
            /\ modelDispose(St, m).undo[r] = NoUndo
            /\ Len(models) < MaxModels
            /\ Calls(LoadedThenAdded(After(modelDispose(St, m)), r), "undo") = {}

\* --------------------------------------------------------------- C38
\* C38: each file change event follows the setting as it is when the event
\* arrives. A model forced dirty while the setting was off, once the setting
\* is on, is not undirtied by an external add of R, which calls nothing and
\* leaves the undo of R recorded, and is not disposed by an external delete
\* of R after it, because the model is not SAVED.
C38_PolicyAtEachEvent ==
    \A r \in Resources, c \in Configurations :
        LET m == Registered(r)
            S == After(onConfigurationUpdated(St, c))
            A == onFileChanges(S, <<r>>, <<>>)
            D == onFileChanges(After(A), <<>>, <<r>>)
            B == onFileChanges(S, <<r>>, <<r>>)
        IN  (/\ m # NoModel
             /\ ~models[m].disposed
             /\ models[m].state = "DIRTY"
             /\ mapResourceToUndoDirtyFromExternalDelete[r]
                    = [model |-> m, state |-> "SAVED"]
             /\ S.flag) =>
                /\ A = S
                /\ D = S
                /\ B = S
                /\ D.models[m].state = "DIRTY"
                /\ ~D.models[m].disposed
                /\ D.undo[r] = [model |-> m, state |-> "SAVED"]
                /\ get(D, r) = m

\* the setting has been turned on after an external delete forced the
\* registered model dirty: the model is DIRTY, its undo is recorded, and the
\* external add and the external delete of its resource change nothing
C38_Witness ==
    \E r \in Resources :
        LET m == Registered(r)
        IN  /\ lastOp = "onConfigurationUpdated"
            /\ disposeOnExternalFileDelete
            /\ m # NoModel
            /\ ~models[m].disposed
            /\ Pending(r) = NoModel
            /\ models[m].state = "DIRTY"
            /\ mapResourceToUndoDirtyFromExternalDelete[r]
                   = [model |-> m, state |-> "SAVED"]
            /\ onFileChanges(St, <<r>>, <<>>) = St
            /\ onFileChanges(St, <<>>, <<r>>) = St
            /\ Calls(onFileChanges([St EXCEPT !.flag = FALSE], <<r>>, <<>>), "undo") # {}

\* ---------------------------------------------------------------- C39
ResolutionsFor(language, userDataPath) ==
    {p \in DOMAIN nlsPromises :
        /\ nlsPromises[p].options.userLocale = language
        /\ nlsPromises[p].options.userDataPath = userDataPath}

ResolutionsUnder(key) ==
    {p \in DOMAIN nlsPromises :
        cacheKey(nlsPromises[p].options.userLocale,
                 nlsPromises[p].options.userDataPath) = key}

\* the call found a commit and an existing metadata path
PastTheCheck(c) == product.commit # NoCommit /\ nlsCalls[c].exists = "yes"

KeyOf(c) == cacheKey(nlsCalls[c].language, nlsCalls[c].userDataPath)

MadeBeforeDispose == \A c \in DOMAIN resolveCalls : ~resolveCalls[c].afterDispose

\* the diff models that resolve() has cached
CachedOnce == {resolveCalls[c].model : c \in {d \in DOMAIN resolveCalls :
                                                 resolveCalls[d].pc = "returned"}}

\* C40: once dispose() has run, the input keeps no cached diff model and no
\* model it has cached is left undisposed, also when calls of resolve() made
\* before dispose() were still in flight when it ran.
C40_DisposedInputKeepsNoModel ==
    (inputDisposed /\ MadeBeforeDispose) =>
        /\ cachedModel = NoDiffModel
        /\ \A m \in CachedOnce : diffModels[m].disposed

====
